---- MODULE Spec2Model ----
(***************************************************************************)
(* A model of the secret cache of system/jlib/jsecrets.cpp: name           *)
(* validation, the SecretCache and its entries, getSecretEntry and the     *)
(* public calls built on it, the CSecret view, and one vault's fetch.      *)
(* Strings are sequences of one-character strings, so that validation,     *)
(* key building and comparisons are computed as the code computes them.    *)
(***************************************************************************)
EXTENDS Integers, Sequences, FiniteSets, TLC

VARIABLES tick, advances, secretTimeoutMs, secrets, entries, views, th,
          nextObj, calls, overlapped, vault, fetch, wall,
          mtlsInfoCacheCS, mtlsInfoCache, certs, cth, arg, out,
          cs, udpKeyInitialized, udpKey, locks, useMtls

\* The state of one CVault, of the fetches in progress on it, and time().
vaultVars == <<vault, fetch, wall>>

\* The mTLS info cache, the certificate views it holds, each thread's
\* position in an access to one of them, and what queryMtls has found.
certVars == <<mtlsInfoCacheCS, mtlsInfoCache, certs, cth, useMtls>>

\* The arguments and the result of one call of a function without state.
fnVars == <<arg, out>>

\* The UDP key and whether initSecretUdpKey has set it up.
udpVars == <<udpKeyInitialized, udpKey>>

vars == <<tick, advances, secretTimeoutMs, secrets, entries, views, th,
          nextObj, calls, overlapped, vaultVars, certVars, fnVars, cs, udpVars,
          locks>>

\* ------------------------------------------------------------------ bounds

\* The number of public calls concurrent callers start in one behaviour.
MaxCalls == 3

\* The number of public calls the single caller starts in one behaviour.
MaxArgCalls == 2

\* The number of times the millisecond clock moves in one behaviour.
MaxAdvance == 2

\* The number of vault fetches started in one behaviour.
MaxFetches == 2

\* The largest @retries a vault is configured with.
MaxRetries == 1

\* The calls of getIssuerTlsSyncedConfig and of a view's accessors in a behaviour.
MaxCertCalls == 2

\* The calls of queryMtls and getIssuerTlsSyncedConfig together.
MaxMtlsCalls == 3

\* The times the clock moves on while views are accessed.
MaxCertAdvance == 4

\* The public calls the caller of one secret starts in one behaviour.
MaxEntryCalls == 3

\* The public operations two threads start while the locks are followed.
MaxOrderCalls == 2

\* The fetches two threads start on one vault in one behaviour.
MaxLoginFetches == 2

\* The calls of getSecret started while the cache's lock is followed.
MaxLockCalls == 2

\* The number of times the millisecond clock moves during those calls.
MaxLockAdvance == 1

\* The times the clock moves on between the calls for one secret.
MaxEntryAdvance == 3

\* The threads of the process.
Threads == {1, 2}

\* ------------------------------------------------------- program constants

\* cache_timestamp and the content hash are 32-bit unsigned numbers.  A 32-bit
\* number is held as <<high half, low half>>, two 16-bit numbers, and the
\* arithmetic below is the machine's arithmetic modulo 2^32.
Half == 2^16

U32(n) == <<n \div Half, n % Half>>

Add32(a, b) ==
    LET lo == a[2] + b[2]
        hi == a[1] + b[1] + (lo \div Half)
    IN  <<hi % Half, lo % Half>>

Sub32(a, b) ==
    LET lo == a[2] - b[2]
        hi == a[1] - b[1] - (IF lo < 0 THEN 1 ELSE 0)
    IN  <<(hi + Half) % Half, (lo + Half) % Half>>

\* k * a for a small factor k (the code multiplies by 2 only).
Mul32(k, a) ==
    LET lo == k * a[2]
        hi == k * a[1] + (lo \div Half)
    IN  <<hi % Half, lo % Half>>

Gt32(a, b) == a[1] > b[1] \/ (a[1] = b[1] /\ a[2] > b[2])

Ge32(a, b) == a = b \/ Gt32(a, b)

Zero32 == <<0, 0>>

\* The initial value of secretTimeoutMs: 10 * 60 * 1000.
DefaultTimeoutMs == 600000

\* The seed handed to getPropertyTreeHash: 0x811C9DC5.
HashSeed == <<33052, 40389>>

\* ----------------------------------------------------------------- strings

Lower == {"a", "b", "c", "d", "e", "f", "g", "h", "i", "j", "k", "l", "m", "n", "o", "p", "q", "r", "s", "t", "u", "v", "w", "x", "y", "z"}
Upper == {"A", "B", "C", "D", "E", "F", "G", "H", "I", "J", "K", "L", "M", "N", "O", "P", "Q", "R", "S", "T", "U", "V", "W", "X", "Y", "Z"}
Digit == {"0", "1", "2", "3", "4", "5", "6", "7", "8", "9"}

Ascii == (" " :> 32) @@ ("#" :> 35) @@ ("-" :> 45) @@ ("." :> 46) @@ ("/" :> 47) @@ ("0" :> 48) @@ ("1" :> 49) @@ ("2" :> 50) @@ ("3" :> 51) @@ ("4" :> 52) @@ ("5" :> 53) @@ ("6" :> 54) @@ ("7" :> 55) @@ ("8" :> 56) @@ ("9" :> 57) @@ (":" :> 58) @@ ("@" :> 64) @@ ("A" :> 65) @@ ("B" :> 66) @@ ("C" :> 67) @@ ("D" :> 68) @@ ("E" :> 69) @@ ("F" :> 70) @@ ("G" :> 71) @@ ("H" :> 72) @@ ("I" :> 73) @@ ("J" :> 74) @@ ("K" :> 75) @@ ("L" :> 76) @@ ("M" :> 77) @@ ("N" :> 78) @@ ("O" :> 79) @@ ("P" :> 80) @@ ("Q" :> 81) @@ ("R" :> 82) @@ ("S" :> 83) @@ ("T" :> 84) @@ ("U" :> 85) @@ ("V" :> 86) @@ ("W" :> 87) @@ ("X" :> 88) @@ ("Y" :> 89) @@ ("Z" :> 90) @@ ("_" :> 95) @@ ("a" :> 97) @@ ("b" :> 98) @@ ("c" :> 99) @@ ("d" :> 100) @@ ("e" :> 101) @@ ("f" :> 102) @@ ("g" :> 103) @@ ("h" :> 104) @@ ("i" :> 105) @@ ("j" :> 106) @@ ("k" :> 107) @@ ("l" :> 108) @@ ("m" :> 109) @@ ("n" :> 110) @@ ("o" :> 111) @@ ("p" :> 112) @@ ("q" :> 113) @@ ("r" :> 114) @@ ("s" :> 115) @@ ("t" :> 116) @@ ("u" :> 117) @@ ("v" :> 118) @@ ("w" :> 119) @@ ("x" :> 120) @@ ("y" :> 121) @@ ("z" :> 122)

LowerOf == ("A" :> "a") @@ ("B" :> "b") @@ ("C" :> "c") @@ ("D" :> "d") @@ ("E" :> "e") @@ ("F" :> "f") @@ ("G" :> "g") @@ ("H" :> "h") @@ ("I" :> "i") @@ ("J" :> "j") @@ ("K" :> "k") @@ ("L" :> "l") @@ ("M" :> "m") @@ ("N" :> "n") @@ ("O" :> "o") @@ ("P" :> "p") @@ ("Q" :> "q") @@ ("R" :> "r") @@ ("S" :> "s") @@ ("T" :> "t") @@ ("U" :> "u") @@ ("V" :> "v") @@ ("W" :> "w") @@ ("X" :> "x") @@ ("Y" :> "y") @@ ("Z" :> "z")

\* The terminating character of a C string, and the null pointer.
NUL == "NUL"
Null == <<"nullptr">>

CharAt(s, i) == IF i <= Len(s) THEN s[i] ELSE NUL

isalnum(c) == c \in Lower \cup Upper \cup Digit

tolower(c) == IF c \in Upper THEN LowerOf[c] ELSE c

isEmptyString(s) == s = Null \/ Len(s) = 0

streq(a, b) == a = b

strieq(a, b) ==
    /\ Len(a) = Len(b)
    /\ \A i \in 1..Len(a) : tolower(a[i]) = tolower(b[i])

\* std::string's operator<, the order of a std::map keyed by std::string.
StringLess(a, b) ==
    \E i \in 1..(Len(a) + 1) :
        /\ \A j \in 1..(i - 1) : j <= Len(b) /\ a[j] = b[j]
        /\ \/ i = Len(a) + 1 /\ Len(b) >= i
           \/ i <= Len(a) /\ i <= Len(b) /\ Ascii[a[i]] < Ascii[b[i]]

\* ------------------------------------------------------- name validation

validSecretNameChrs == {".", "-"}

isValidSecretOrKeyNameChr_anywhere(c, firstOrLastChar, isKeyName) ==
    IF c = NUL THEN FALSE
    ELSE IF isalnum(c) THEN TRUE
    ELSE IF isKeyName /\ c = "_" THEN TRUE
    ELSE IF firstOrLastChar THEN FALSE
    ELSE c \in validSecretNameChrs

isValidSecretOrKeyNameChr(c, firstOrLastChar, isKeyName) ==
    IF c = NUL THEN FALSE
    ELSE IF isalnum(c) THEN TRUE
    ELSE IF firstOrLastChar THEN FALSE
    ELSE IF c \in validSecretNameChrs THEN TRUE
    ELSE isKeyName /\ c = "_"

isValidSecretOrKeyName(name, isKeyName) ==
    /\ isValidSecretOrKeyNameChr(CharAt(name, 1), TRUE, isKeyName)
    /\ \A i \in 2..Len(name) :
          isValidSecretOrKeyNameChr(name[i], i = Len(name), isKeyName)

\* TRUE when the validation returns, FALSE when it throws.
validateCategoryName(category) == isValidSecretOrKeyName(category, TRUE)

validateSecretName_skipped(secret) == isValidSecretOrKeyName(secret, TRUE)

validateSecretName(secret) == isValidSecretOrKeyName(secret, FALSE)

validateKeyName(key) == isValidSecretOrKeyName(key, TRUE)

\* ------------------------------------------------------------ cache entry

\* A property tree is a set of <<key, value>> pairs; a pointer to a tree is a
\* record of the object's identity and its value, object 0 being the null pointer.
NoTree == [obj |-> 0, tree |-> {}]

HasProp(tree, key) == \E p \in tree : p[1] = key

PropOf(tree, key) == (CHOOSE p \in tree : p[1] = key)[2]

ValueCode == ("v1" :> 1) @@ ("v2" :> 2)

\* A deterministic 32-bit hash of a tree's keys and values, mixed into the seed.
RECURSIVE getPropertyTreeHash(_, _)
getPropertyTreeHash(tree, seed) ==
    IF tree = {} THEN seed
    ELSE LET p == CHOOSE q \in tree : \A r \in tree : ~StringLess(r[1], q[1])
         IN  getPropertyTreeHash(tree \ {p},
                 Mul32(3, Add32(seed, U32(Ascii[p[1][1]] + ValueCode[p[2]]))))

SecretCacheEntry(now) ==
    [contents          |-> NoTree,
     contentTimestamp  |-> now,
     accessedTimestamp |-> now,
     checkedTimestamp  |-> Sub32(now, Mul32(2, secretTimeoutMs)),
     contentHash       |-> Zero32]

getHash(e) == e.contentHash

hasContents(e) == e.contents.obj # 0

\* msTick() is the variable tick.
isStale(e) ==
    LET now     == tick
        elapsed == Sub32(now, e.contentTimestamp)
    IN  Gt32(elapsed, secretTimeoutMs)

needsRefresh_atTimeout(e, now) ==
    LET elapsed == Sub32(now, e.checkedTimestamp)
    IN  Ge32(elapsed, secretTimeoutMs)

needsRefresh_ordered(e, now) ==
    LET elapsed == Sub32(now, e.checkedTimestamp)
    IN  Gt32(now, e.checkedTimestamp) /\ Gt32(elapsed, secretTimeoutMs)

needsRefresh(e, now) ==
    LET elapsed == Sub32(now, e.checkedTimestamp)
    IN  Gt32(elapsed, secretTimeoutMs)

noteFailedUpdate_asLoaded(e, now) ==
    [e EXCEPT !.checkedTimestamp = now, !.contentTimestamp = now]

noteFailedUpdate(e, now) == [e EXCEPT !.checkedTimestamp = now]

updateHash_once(e) ==
    [e EXCEPT !.contentHash = IF e.contentHash # Zero32 THEN @
                              ELSE IF e.contents.obj # 0
                              THEN getPropertyTreeHash(e.contents.tree, HashSeed)
                              ELSE Zero32]

updateHash(e) ==
    [e EXCEPT !.contentHash = IF e.contents.obj # 0
                              THEN getPropertyTreeHash(e.contents.tree, HashSeed)
                              ELSE Zero32]

updateContents_unchecked(e, contents, now) ==
    [updateHash([e EXCEPT !.contents = contents])
        EXCEPT !.contentTimestamp = now,
               !.accessedTimestamp = now]

updateContents(e, contents, now) ==
    [updateHash([e EXCEPT !.contents = contents])
        EXCEPT !.contentTimestamp = now,
               !.accessedTimestamp = now,
               !.checkedTimestamp = now]

\* ----------------------------------------------------------- SecretCache
\* secrets maps a key to the index of its entry in entries (the heap of
\* SecretCacheEntry objects); a pointer to an entry is its index.

getContents(match) == entries[match].contents

SecretCache_resolveSecret_replacing(secretKey, now) ==
    [secrets |-> [k \in DOMAIN secrets \cup {secretKey} |->
                     IF k = secretKey THEN Len(entries) + 1 ELSE secrets[k]],
     entries |-> Append(entries, SecretCacheEntry(now)),
     result  |-> Len(entries) + 1]

SecretCache_resolveSecret(secretKey, now) ==
    IF secretKey \in DOMAIN secrets
    THEN [secrets |-> secrets,
          entries |-> [entries EXCEPT ![secrets[secretKey]].accessedTimestamp = now],
          result  |-> secrets[secretKey]]
    ELSE [secrets |-> [k \in DOMAIN secrets \cup {secretKey} |->
                          IF k = secretKey THEN Len(entries) + 1 ELSE secrets[k]],
          entries |-> Append(entries, SecretCacheEntry(now)),
          result  |-> Len(entries) + 1]

updateSecret(es, match, value, now) ==
    [es EXCEPT ![match] = updateContents(@, value, now)]

\* --------------------------------------------------------- vault registry
\* The vaults/* children of the component configuration, in document order.

VaultConfig ==
    << [category |-> <<"c">>, name |-> <<"v", "2">>],
       [category |-> <<"c">>, name |-> <<"v", "1">>] >>

\* CVaultManager::categories: the keys of the map built by the constructor.
categories == {VaultConfig[i].category : i \in DOMAIN VaultConfig}

\* CVaultSet::vaults of a category: the keys of its std::map.
vaults(category) ==
    {VaultConfig[i].name : i \in {j \in DOMAIN VaultConfig :
        /\ VaultConfig[j].category = category
        /\ ~isEmptyString(VaultConfig[j].name)}}

\* The order in which a std::map<std::string, ...> is iterated.
RECURSIVE MapOrder(_)
MapOrder(names) ==
    IF names = {} THEN <<>>
    ELSE LET first == CHOOSE n \in names : \A m \in names : ~StringLess(m, n)
         IN  <<first>> \o MapOrder(names \ {first})

\* -------------------------------------------------------------- requests

K8s == <<"k", "8", "s">>

Cat == <<"c">>

Sec == <<"s">>

KeyName == <<"k">>

Req(category, name, vaultId, version) ==
    [category |-> category, name |-> name, vaultId |-> vaultId, version |-> version]

NoReq == Req(<<>>, <<>>, Null, Null)

\* The arguments one caller passes: a plain request, the two spellings of the
\* k8s vault id, a named vault, and two invalid names.
CallRequests ==
    { Req(Cat, Sec, Null, Null),
      Req(Cat, Sec, K8s, Null),
      Req(Cat, Sec, <<"K", "8", "S">>, Null),
      Req(Cat, Sec, <<"v", "1">>, Null),
      Req(<<".", "x">>, Sec, Null, Null),
      Req(Cat, <<"a", "_", "b">>, Null, Null) }

ValueRequests ==
    { Req(Cat, Sec, Null, Null),
      Req(Cat, <<"a", "_", "b">>, Null, Null) }

\* The arguments concurrent callers pass: one secret of one named vault.
SharedRequests ==
    { Req(Cat, Sec, <<"v", "1">>, Null) }

\* A key the trees hold, a key they lack, and an invalid key name.
KeyArgs == { KeyName, <<"k", "2">>, <<"a", " ", "b">> }

\* What a backend can hold for a secret.
LocalTrees == { {}, {<<KeyName, "v1">>}, {<<<<"j">>, "v2">>} }

VaultTrees == { {<<KeyName, "v2">>} }

LocalSource == <<"local">>

ViewOps == {"getTree", "getVersion", "getProp"}

\* The key getSecretEntry builds for the cache.
SecretKey(category, name, optVaultId, optVersion) ==
    category \o <<"/">> \o name
        \o (IF optVaultId # Null THEN <<"@">> \o optVaultId ELSE <<>>)
        \o (IF optVersion # Null THEN <<"#">> \o optVersion ELSE <<>>)

KeyOfReq(r) == SecretKey(r.category, r.name, r.vaultId, r.version)

\* --------------------------------------------------------------- threads

\* What a call hands back: the function's result (ok, tree, view, version),
\* the caller's result buffer (value), and whether the key was found.
NoRet ==
    [ok |-> FALSE, found |-> FALSE, tree |-> NoTree, view |-> 0,
     version |-> Zero32, value |-> ""]

NoSeen == [contents |-> NoTree, contentTimestamp |-> Zero32, checkedTimestamp |-> Zero32]

\* A thread outside any call.  pc is the thread's position in its call; the
\* other fields are the call's arguments and locals (now, match, resolved, the
\* fan-out's iterator it, what the local source answered),
\* what it raised or returned, and what the call observed: the backends it
\* consulted, the entry as it was when the call started (seen), and the
\* contents held when a view began its refresh (before).
Idle ==
    [pc |-> "idle", op |-> "none", req |-> NoReq, key |-> Null,
     required |-> FALSE, view |-> 0, now |-> Zero32, match |-> 0,
     refresh |-> FALSE, local |-> "none", resolved |-> NoTree, it |-> 1,
     fanout |-> FALSE,
     consulted |-> <<>>, raised |-> "none", caught |-> FALSE,
     asserted |-> FALSE, ret |-> NoRet, seen |-> NoSeen, before |-> NoTree]

Busy(u) == th[u].pc \notin {"idle", "done"}

\* The keys on which two calls have been in progress at the same time.
Overlap(t, key) ==
    IF \E u \in Threads \ {t} : Busy(u) /\ KeyOfReq(th[u].req) = key
    THEN overlapped \cup {key}
    ELSE overlapped

Seen(key) ==
    IF key \in DOMAIN secrets
    THEN LET e == entries[secrets[key]]
         IN  [contents |-> e.contents,
              contentTimestamp |-> e.contentTimestamp,
              checkedTimestamp |-> e.checkedTimestamp]
    ELSE NoSeen

\* A call starts on a thread that is in no call; calls counts the calls the
\* behaviour may still start.  Threads are interchangeable: of two free
\* threads the lower one starts.
CanStart(t) ==
    /\ ~Busy(t)
    /\ calls > 0
    /\ \A u \in Threads : u < t => Busy(u)

\* Which backend getSecretEntry turns to first.
FirstBackend_literal(optVaultId) ==
    IF ~isEmptyString(optVaultId)
    THEN IF streq(optVaultId, K8s) THEN "local" ELSE "vault"
    ELSE "local"

FirstBackend(optVaultId) ==
    IF ~isEmptyString(optVaultId)
    THEN IF strieq(optVaultId, K8s) THEN "local" ELSE "vault"
    ELSE "local"

\* getSecretEntry up to its first backend: the clock is read, the key is
\* built, SecretCache::resolveSecret runs under the cache lock, and
\* needsRefresh(now) decides between returning and refreshing.
getSecretEntry(rec, now) ==
    LET r     == SecretCache_resolveSecret(KeyOfReq(rec.req), now)
        needs == needsRefresh(r.entries[r.result], now)
    IN  [secrets |-> r.secrets,
         entries |-> r.entries,
         rec     |-> [rec EXCEPT !.now = now, !.match = r.result,
                                 !.refresh = needs,
                                 !.pc = IF needs THEN FirstBackend(rec.req.vaultId)
                                        ELSE "contents"]]

\* getSecret and resolveSecret: both names are validated, then getSecretEntry
\* starts.
StartCall(t, op, req, key, required) ==
    LET rec == [Idle EXCEPT !.op = op, !.req = req, !.key = key,
                            !.required = required]
    IN  IF validateCategoryName(req.category) /\ validateSecretName(req.name)
        THEN LET g == getSecretEntry([rec EXCEPT !.seen = Seen(KeyOfReq(req))], tick)
             IN  /\ secrets' = g.secrets
                 /\ entries' = g.entries
                 /\ th' = [th EXCEPT ![t] = g.rec]
                 /\ overlapped' = Overlap(t, KeyOfReq(req))
        ELSE /\ th' = [th EXCEPT ![t] = [rec EXCEPT !.pc = "done",
                                                     !.raised = "InvalidName"]]
             /\ UNCHANGED <<secrets, entries, overlapped>>

Call(t, op, req, key, required) ==
    /\ CanStart(t)
    /\ calls' = calls - 1
    /\ StartCall(t, op, req, key, required)
    /\ UNCHANGED <<vaultVars, certVars, fnVars, cs, udpVars, locks, tick, advances, secretTimeoutMs, views, nextObj>>

getSecret(t, reqs) == \E req \in reqs : Call(t, "getSecret", req, Null, FALSE)

resolveSecret(t, reqs) == \E req \in reqs : Call(t, "resolveSecret", req, Null, FALSE)

\* getSecretValue calls getSecret(category, name): no vault id, no version.
getSecretValue(t, reqs, keys) ==
    \E req \in reqs, key \in keys, required \in BOOLEAN :
        Call(t, "getSecretValue", Req(req.category, req.name, Null, Null), key, required)

\* One accessor of the view v called on thread t.
StartAccess(t, v, op, key) ==
    /\ views[v].lock = 0
    /\ views' = [views EXCEPT ![v].lock = t]
    /\ LET secret == views[v].secret
           key2   == KeyOfReq(views[v].req)
           rec    == [Idle EXCEPT !.op = op, !.req = views[v].req,
                                  !.key = key, !.view = v, !.now = tick,
                                  !.seen = Seen(key2),
                                  !.before = getContents(secret)]
       IN  /\ overlapped' = Overlap(t, key2)
           /\ IF needsRefresh(entries[secret], tick)
              THEN LET g == getSecretEntry(rec, tick)
                   IN  /\ secrets' = g.secrets
                       /\ entries' = g.entries
                       /\ th' = [th EXCEPT ![t] = g.rec]
              ELSE /\ th' = [th EXCEPT ![t] = [rec EXCEPT !.pc = "contents"]]
                   /\ UNCHANGED <<secrets, entries>>

\* CSecret::getTree, getVersion and getProp: the view's lock is taken and
\* checkUptoDate asks needsRefresh() of the entry; if it does, getSecretEntry
\* starts.  Views that are equal are interchangeable: the first is accessed.
CSecret_access(t, keys) ==
    \E v \in 1..Len(views), op \in ViewOps :
    \E key \in (IF op = "getProp" THEN keys ELSE {Null}) :
        /\ CanStart(t)
        /\ \A u \in 1..(v - 1) : views[u] # views[v]
        /\ calls' = calls - 1
        /\ StartAccess(t, v, op, key)
        /\ UNCHANGED <<vaultVars, certVars, fnVars, cs, udpVars, locks, tick, advances, secretTimeoutMs, nextObj>>

\* An exception leaving getSecretEntry: CSecret::checkUptoDate catches it,
\* the other callers let it through.
Throw_uncaught(rec, kind) == [rec EXCEPT !.pc = "done", !.raised = kind]

Throw(rec, kind) ==
    IF rec.op \in ViewOps
    THEN [rec EXCEPT !.pc = "contents", !.caught = TRUE]
    ELSE [rec EXCEPT !.pc = "done", !.raised = kind]

\* Where getSecretEntry goes after the local source has answered.
AfterLocal(optVaultId, resolved) ==
    IF ~isEmptyString(optVaultId) THEN "update"
    ELSE IF resolved.obj = 0 THEN "fanout" ELSE "update"

\* resolveLocalSecret: absent when the directory is missing or empty, else a
\* new tree of the files read.
resolveLocalSecret(t) ==
    /\ th[t].pc = "local"
    /\ \/ /\ th' = [th EXCEPT ![t].consulted = Append(@, LocalSource),
                              ![t].local = "absent",
                              ![t].resolved = NoTree,
                              ![t].pc = AfterLocal(th[t].req.vaultId, NoTree)]
          /\ UNCHANGED nextObj
       \/ \E tree \in LocalTrees :
          LET new == [obj |-> nextObj, tree |-> tree]
          IN  /\ th' = [th EXCEPT ![t].consulted = Append(@, LocalSource),
                                  ![t].local = "found",
                                  ![t].resolved = new,
                                  ![t].pc = AfterLocal(th[t].req.vaultId, new)]
              /\ nextObj' = nextObj + 1
    /\ UNCHANGED <<vaultVars, certVars, fnVars, cs, udpVars, locks, tick, advances, secretTimeoutMs, secrets, entries, views, calls, overlapped>>

\* resolveVaultSecret with a vault id: CVaultManager::requestSecretFromVault
\* finds the category and the vault; CVault::requestSecret then yields a
\* body, yields nothing, or throws a vault authentication error.
resolveVaultSecret_byId(t) ==
    /\ th[t].pc = "vault"
    /\ LET category == th[t].req.category
           vaultId  == th[t].req.vaultId
       IN  IF category \notin categories \/ vaultId \notin vaults(category)
           THEN /\ th' = [th EXCEPT ![t].resolved = NoTree, ![t].pc = "update"]
                /\ UNCHANGED nextObj
           ELSE \/ /\ th' = [th EXCEPT ![t].consulted = Append(@, vaultId),
                                       ![t].resolved = NoTree,
                                       ![t].pc = "update"]
                   /\ UNCHANGED nextObj
                \/ \E tree \in VaultTrees :
                      /\ th' = [th EXCEPT ![t].consulted = Append(@, vaultId),
                                          ![t].resolved = [obj |-> nextObj, tree |-> tree],
                                          ![t].pc = "update"]
                      /\ nextObj' = nextObj + 1
                \/ /\ th' = [th EXCEPT ![t] =
                               Throw([@ EXCEPT !.consulted = Append(@, vaultId)],
                                     "VaultAuthError")]
                   /\ UNCHANGED nextObj
    /\ UNCHANGED <<vaultVars, certVars, fnVars, cs, udpVars, locks, tick, advances, secretTimeoutMs, secrets, entries, views, calls, overlapped>>

\* The loop of CVaultSet::requestSecret left at the first vault.
resolveVaultSecret_byCategory_firstOnly(t) ==
    /\ th[t].pc = "fanout"
    /\ LET category == th[t].req.category
           order    == IF category \in categories
                       THEN MapOrder(vaults(category)) ELSE <<>>
           i        == th[t].it
       IN  IF i > Len(order)
           THEN /\ th' = [th EXCEPT ![t].fanout = TRUE,
                                    ![t].resolved = NoTree,
                                    ![t].pc = "update"]
                /\ UNCHANGED nextObj
           ELSE \/ /\ th' = [th EXCEPT ![t].fanout = TRUE,
                                       ![t].consulted = Append(@, order[i]),
                                       ![t].it = i + 1,
                                       ![t].pc = "update"]
                   /\ UNCHANGED nextObj
                \/ \E tree \in VaultTrees :
                      /\ th' = [th EXCEPT ![t].fanout = TRUE,
                                          ![t].consulted = Append(@, order[i]),
                                          ![t].resolved = [obj |-> nextObj, tree |-> tree],
                                          ![t].pc = "update"]
                      /\ nextObj' = nextObj + 1
                \/ /\ th' = [th EXCEPT ![t] =
                               Throw([@ EXCEPT !.fanout = TRUE,
                                               !.consulted = Append(@, order[i])],
                                     "VaultAuthError")]
                   /\ UNCHANGED nextObj
    /\ UNCHANGED <<vaultVars, certVars, fnVars, cs, udpVars, locks, tick, advances, secretTimeoutMs, secrets, entries, views, calls, overlapped>>

\* resolveVaultSecret without a vault id: one turn of the loop of
\* CVaultSet::requestSecret over the vaults of the category.
resolveVaultSecret_byCategory(t) ==
    /\ th[t].pc = "fanout"
    /\ LET category == th[t].req.category
           order    == IF category \in categories
                       THEN MapOrder(vaults(category)) ELSE <<>>
           i        == th[t].it
       IN  IF i > Len(order)
           THEN /\ th' = [th EXCEPT ![t].fanout = TRUE,
                                    ![t].resolved = NoTree,
                                    ![t].pc = "update"]
                /\ UNCHANGED nextObj
           ELSE \/ /\ th' = [th EXCEPT ![t].fanout = TRUE,
                                       ![t].consulted = Append(@, order[i]),
                                       ![t].it = i + 1,
                                       ![t].pc = IF i = Len(order) THEN "update"
                                                 ELSE "fanout"]
                   /\ UNCHANGED nextObj
                \/ \E tree \in VaultTrees :
                      /\ th' = [th EXCEPT ![t].fanout = TRUE,
                                          ![t].consulted = Append(@, order[i]),
                                          ![t].resolved = [obj |-> nextObj, tree |-> tree],
                                          ![t].pc = "update"]
                      /\ nextObj' = nextObj + 1
                \/ /\ th' = [th EXCEPT ![t] =
                               Throw([@ EXCEPT !.fanout = TRUE,
                                               !.consulted = Append(@, order[i])],
                                     "VaultAuthError")]
                   /\ UNCHANGED nextObj
    /\ UNCHANGED <<vaultVars, certVars, fnVars, cs, udpVars, locks, tick, advances, secretTimeoutMs, secrets, entries, views, calls, overlapped>>

\* The end of getSecretEntry: install what was resolved, or note the failure.
Installed_always(es, match, resolved, now) == updateSecret(es, match, resolved, now)

Installed(es, match, resolved, now) ==
    IF resolved.obj # 0
    THEN updateSecret(es, match, resolved, now)
    ELSE [es EXCEPT ![match] = noteFailedUpdate(@, now)]

getSecretEntry_update(t) ==
    /\ th[t].pc = "update"
    /\ entries' = Installed(entries, th[t].match, th[t].resolved, th[t].now)
    /\ th' = [th EXCEPT ![t].pc = "contents"]
    /\ UNCHANGED <<vaultVars, certVars, fnVars, cs, udpVars, locks, tick, advances, secretTimeoutMs, secrets, views, nextObj, calls, overlapped>>

\* getSecretKeyValue: the key name is validated, then the property is read.
getSecretKeyValue(secret, key) ==
    IF ~validateKeyName(key)
    THEN [raised |-> "InvalidName", found |-> FALSE, value |-> ""]
    ELSE IF secret.obj = 0
    THEN [raised |-> "none", found |-> FALSE, value |-> ""]
    ELSE IF HasProp(secret.tree, key)
    THEN [raised |-> "none", found |-> TRUE, value |-> PropOf(secret.tree, key)]
    ELSE [raised |-> "none", found |-> FALSE, value |-> ""]

\* getSecretValue once getSecret has returned the secret.
getSecretValue_return(secret, key, required) ==
    IF required /\ secret.obj = 0
    THEN [raised |-> "NotFound", ret |-> NoRet]
    ELSE LET r == getSecretKeyValue(secret, key)
         IN  IF r.raised # "none"
             THEN [raised |-> r.raised, ret |-> NoRet]
             ELSE IF required /\ ~r.found
             THEN [raised |-> "NotFound", ret |-> NoRet]
             ELSE [raised |-> "none",
                   ret |-> [NoRet EXCEPT !.ok = TRUE, !.found = r.found,
                                         !.value = r.value]]

\* CSecret's accessors once checkUptoDate has returned.
CSecret_return(op, secret, key) ==
    IF op = "getTree"
    THEN [raised |-> "none", ret |-> [NoRet EXCEPT !.tree = getContents(secret)]]
    ELSE IF op = "getVersion"
    THEN [raised |-> "none", ret |-> [NoRet EXCEPT !.version = getHash(entries[secret])]]
    ELSE LET r == getSecretKeyValue(getContents(secret), key)
         IN  [raised |-> r.raised,
              ret |-> [NoRet EXCEPT !.ok = r.found, !.found = r.found,
                                    !.value = r.value]]

\* What each call does after getSecretEntry: getSecretTree reads the contents
\* under the cache lock, resolveSecret wraps the entry in a new CSecret,
\* getSecretValue reads the key, a view's accessor reads its entry and
\* releases the view's lock.
Return(t) ==
    /\ th[t].pc = "contents"
    /\ LET me == th[t]
       IN  \/ /\ me.op = "getSecret"
              /\ th' = [th EXCEPT ![t].pc = "done",
                                  ![t].ret = [NoRet EXCEPT !.tree = getContents(me.match)]]
              /\ UNCHANGED views
           \/ /\ me.op = "resolveSecret"
              /\ views' = Append(views, [req |-> me.req, secret |-> me.match, lock |-> 0])
              /\ th' = [th EXCEPT ![t].pc = "done",
                                  ![t].ret = [NoRet EXCEPT !.view = Len(views) + 1]]
           \/ /\ me.op = "getSecretValue"
              /\ LET r == getSecretValue_return(getContents(me.match), me.key, me.required)
                 IN  th' = [th EXCEPT ![t].pc = "done",
                                      ![t].raised = r.raised,
                                      ![t].ret = r.ret]
              /\ UNCHANGED views
           \/ /\ me.op \in ViewOps
              /\ LET secret == views[me.view].secret
                     r      == CSecret_return(me.op, secret, me.key)
                 IN  th' = [th EXCEPT ![t].pc = "done",
                                      ![t].asserted = (me.match # 0 /\ me.match # secret),
                                      ![t].raised = r.raised,
                                      ![t].ret = r.ret]
              /\ views' = [views EXCEPT ![me.view].lock = 0]
    /\ UNCHANGED <<vaultVars, certVars, fnVars, cs, udpVars, locks, tick, advances, secretTimeoutMs, secrets, entries, nextObj, calls, overlapped>>

\* msTick() moves on: by the timeout, then by one more millisecond, and so on,
\* so that calls are apart by less than, exactly, and more than the timeout.
Delta(n) == IF n % 2 = 0 THEN secretTimeoutMs ELSE U32(1)

TickTo(max) ==
    /\ advances < max
    /\ advances' = advances + 1
    /\ tick' = Add32(tick, Delta(advances))
    /\ UNCHANGED <<vaultVars, certVars, fnVars, cs, udpVars, locks, secretTimeoutMs, secrets, entries, views, th, nextObj, calls, overlapped>>

Tick == TickTo(MaxAdvance)

\* The timeouts a caller sets: none, the default, and 2^31 milliseconds.
Timeouts == { Zero32, U32(DefaultTimeoutMs), <<Half \div 2, 0>> }

\* setSecretTimeout, called between the calls of thread t.
setSecretTimeout(t, timeouts) ==
    /\ CanStart(t)
    /\ calls' = calls - 1
    /\ \E timeoutMs \in timeouts \ {secretTimeoutMs} : secretTimeoutMs' = timeoutMs
    /\ UNCHANGED <<vaultVars, certVars, fnVars, cs, udpVars, locks, tick, advances, secrets, entries, views, th, nextObj, overlapped>>

\* ------------------------------------------------------------------ CVault
\* One vault and the fetches (CVault::requestSecret) in progress on it.

AuthTypes == {"unknown", "appRole", "k8s", "clientcert", "token"}

\* The vault as its constructor leaves it: a token only in token mode, read
\* from the client secret (configured remembers it), no expiration.
CVault(authType, token, retries, path) ==
    [authType |-> authType, clientToken |-> token, configured |-> token,
     clientTokenExpiration |-> 0, clientTokenRenewable |-> FALSE,
     retries |-> retries, path |-> path, vaultCS |-> 0]

\* The vaults a configuration can give.
Vaults ==
    { CVault(a, token, retries, <<"p">>) :
        a \in AuthTypes \ {"token"}, token \in {""}, retries \in 0..MaxRetries }
    \cup
    { CVault("token", token, retries, <<"p">>) :
        token \in {"", "static"}, retries \in 0..MaxRetries }
    \cup
    { CVault("token", "static", 0, <<>>) }

isClientTokenExpired_anyLease(v, now) ==
    v.clientTokenExpiration - now <= 0

isClientTokenExpired(v, now) ==
    IF v.clientTokenExpiration = 0 THEN FALSE
    ELSE v.clientTokenExpiration - now <= 0

\* What a login response can carry in auth/lease_duration and auth/renewable.
LoginResponses ==
    { [lease_duration |-> 0, renewable |-> FALSE],
      [lease_duration |-> 1, renewable |-> TRUE] }

processClientTokenResponse(v, res, now) ==
    [v EXCEPT !.clientToken = "login",
              !.clientTokenRenewable = res.renewable,
              !.clientTokenExpiration = IF res.lease_duration = 0 THEN 0
                                        ELSE now + res.lease_duration]

\* A fetch outside any call.  rounds counts the GET rounds begun, gets and
\* posts the requests sent, forced the logins entered with permissionDenied;
\* answers and logins list how the rounds and the logins ended; waited tells
\* that the fetch stood at the start of its first login while another
\* thread's login stored a token.
NoFetch ==
    [pc |-> "idle", secret |-> <<>>, permissionDenied |-> FALSE,
     numRetries |-> 0, rounds |-> 0, gets |-> 0, posts |-> 0, forced |-> 0,
     answers |-> <<>>, logins |-> <<>>, raised |-> "none", result |-> "none",
     waited |-> FALSE]

Fetching(u) == fetch[u].pc \notin {"idle", "done"}

vaultAuthError_logged(rec) == [rec EXCEPT !.pc = "done", !.result = "absent"]

vaultAuthError(rec) == [rec EXCEPT !.pc = "done", !.raised = "VaultAuthError"]

ReturnFalse(rec) == [rec EXCEPT !.pc = "done", !.result = "absent"]

\* CVault::requestSecret: nothing is asked for an empty secret name, else
\* requestSecretAtLocation starts with permissionDenied false.
CVault_requestSecret(t) ==
    /\ ~Fetching(t)
    /\ calls > 0
    /\ \A u \in Threads : u < t => Fetching(u)
    /\ calls' = calls - 1
    /\ \E secret \in {Sec, <<>>} :
          fetch' = [fetch EXCEPT ![t] =
                      IF isEmptyString(secret)
                      THEN ReturnFalse(NoFetch)
                      ELSE [NoFetch EXCEPT !.pc = "auth", !.secret = secret]]
    /\ UNCHANGED <<certVars, fnVars, cs, udpVars, locks, tick, advances, secretTimeoutMs, secrets, entries, views, th,
                   nextObj, overlapped, vault, wall>>

\* The authentication types for which checkAuthentication calls a login.
LoginMode_token(authType) == authType # "unknown"

LoginMode(authType) == authType \in {"appRole", "k8s", "clientcert"}

AfterAuthentication_extraRetry(rec, v) ==
    IF v.clientToken = "" THEN vaultAuthError(rec)
    ELSE IF isEmptyString(v.path) THEN ReturnFalse(rec)
    ELSE [rec EXCEPT !.pc = "get", !.numRetries = v.retries + 1, !.rounds = @ + 1]

\* The end of checkAuthentication and requestSecretAtLocation up to its GET.
AfterAuthentication(rec, v) ==
    IF v.clientToken = "" THEN vaultAuthError(rec)
    ELSE IF isEmptyString(v.path) THEN ReturnFalse(rec)
    ELSE [rec EXCEPT !.pc = "get", !.numRetries = v.retries, !.rounds = @ + 1]

\* checkAuthentication(permissionDenied) up to the login's first POST: a
\* login takes vaultCS, returns at once when it is not forced and the vault
\* holds a token that has not expired, fails before any request when its
\* credentials are missing, and else posts while holding vaultCS.
checkAuthentication(t) ==
    /\ fetch[t].pc = "auth"
    /\ LET me == fetch[t]
           pd == me.permissionDenied
       IN  IF LoginMode(vault.authType)
           THEN /\ vault.vaultCS = 0
                /\ IF ~pd /\ vault.clientToken # "" /\ ~isClientTokenExpired(vault, wall)
                   THEN /\ fetch' = [fetch EXCEPT ![t] = AfterAuthentication(me, vault)]
                        /\ UNCHANGED vault
                   ELSE LET entered == [me EXCEPT !.forced = IF pd THEN @ + 1 ELSE @]
                        IN  \/ /\ vault.authType \in {"appRole", "k8s"}
                               /\ fetch' = [fetch EXCEPT ![t] =
                                     vaultAuthError([entered EXCEPT
                                         !.logins = Append(@, "failed")])]
                               /\ UNCHANGED vault
                            \/ /\ fetch' = [fetch EXCEPT ![t] =
                                     [entered EXCEPT !.pc = "post",
                                                     !.numRetries = vault.retries]]
                               /\ vault' = [vault EXCEPT !.vaultCS = t]
           ELSE /\ fetch' = [fetch EXCEPT ![t] =
                       IF pd /\ vault.authType = "token"
                       THEN vaultAuthError(me)
                       ELSE AfterAuthentication(me, vault)]
                /\ UNCHANGED vault
    /\ UNCHANGED <<certVars, fnVars, cs, udpVars, locks, tick, advances, secretTimeoutMs, secrets, entries, views, th,
                   nextObj, calls, overlapped, wall>>

\* One POST of a login and what follows it: without an answer the POST is
\* repeated while numRetries lasts; processClientTokenResponse then throws or
\* stores the new token; vaultCS is released either way.
Post(t) ==
    /\ fetch[t].pc = "post"
    /\ LET me     == [fetch[t] EXCEPT !.posts = @ + 1]
           failed == vaultAuthError([me EXCEPT !.logins = Append(@, "failed")])
       IN  \/ IF me.numRetries > 0
              THEN /\ fetch' = [fetch EXCEPT ![t] = [me EXCEPT !.numRetries = @ - 1]]
                   /\ UNCHANGED vault
              ELSE /\ fetch' = [fetch EXCEPT ![t] = failed]
                   /\ vault' = [vault EXCEPT !.vaultCS = 0]
           \/ /\ fetch' = [fetch EXCEPT ![t] = failed]
              /\ vault' = [vault EXCEPT !.vaultCS = 0]
           \/ \E res \in LoginResponses :
                 LET v == [processClientTokenResponse(vault, res, wall)
                              EXCEPT !.vaultCS = 0]
                 IN  /\ vault' = v
                     /\ fetch' = [fetch EXCEPT ![t] =
                           AfterAuthentication([me EXCEPT !.logins = Append(@, "ok")], v)]
    /\ UNCHANGED <<certVars, fnVars, cs, udpVars, locks, tick, advances, secretTimeoutMs, secrets, entries, views, th,
                   nextObj, calls, overlapped, wall>>

\* The answer 403 to a GET: once more with a forced login, but only once.
On403_always(rec) == [rec EXCEPT !.pc = "auth", !.permissionDenied = TRUE]

On403(rec) ==
    IF rec.permissionDenied = FALSE
    THEN [rec EXCEPT !.pc = "auth", !.permissionDenied = TRUE]
    ELSE ReturnFalse(rec)

\* The HTTP statuses a vault answers a GET with.
Statuses == {200, 403, 404, 500}

\* One GET of requestSecretAtLocation and what follows it: without an answer
\* the GET is repeated while numRetries lasts.
Get(t) ==
    /\ fetch[t].pc = "get"
    /\ LET me == [fetch[t] EXCEPT !.gets = @ + 1]
       IN  \/ fetch' = [fetch EXCEPT ![t] =
                 IF me.numRetries > 0
                 THEN [me EXCEPT !.numRetries = @ - 1]
                 ELSE ReturnFalse([me EXCEPT !.answers = Append(@, 0)])]
           \/ \E status \in Statuses :
                 LET answered == [me EXCEPT !.answers = Append(@, status)]
                 IN  fetch' = [fetch EXCEPT ![t] =
                        IF status = 200
                        THEN [answered EXCEPT !.pc = "done", !.result = "content"]
                        ELSE IF status = 403 THEN On403(answered)
                        ELSE ReturnFalse(answered)]
    /\ UNCHANGED <<certVars, fnVars, cs, udpVars, locks, tick, advances, secretTimeoutMs, secrets, entries, views, th,
                   nextObj, calls, overlapped, vault, wall>>

\* time() moves on by a second.
WallTick ==
    /\ advances < MaxAdvance
    /\ advances' = advances + 1
    /\ wall' = wall + 1
    /\ UNCHANGED <<certVars, fnVars, cs, udpVars, locks, tick, secretTimeoutMs, secrets, entries, views, th,
                   nextObj, calls, overlapped, vault, fetch>>

\* ------------------------------------------------ the vault's lock
\* The same fetch with the steps of a login apart: a thread waits at "auth"
\* for vaultCS, is inside the login's CriticalBlock at "login" and "post", and
\* at "token" it has left the login and is about to read clientToken for
\* the test of checkAuthentication and for the X-Vault-Token header.

VaultFrame ==
    UNCHANGED <<certVars, fnVars, cs, udpVars, locks, tick, advances, secretTimeoutMs,
                secrets, entries, views, th, nextObj, calls, overlapped, wall>>

\* The login enters without waiting for the lock.
login_enter_unlocked(t) ==
    /\ fetch[t].pc = "auth"
    /\ LoginMode(vault.authType)
    /\ vault' = [vault EXCEPT !.vaultCS = t]
    /\ fetch' = [fetch EXCEPT ![t].pc = "login"]
    /\ VaultFrame

\* CriticalBlock block(vaultCS) of appRoleLogin, kubernetesLogin and
\* clientCertLogin.
login_enter(t) ==
    /\ fetch[t].pc = "auth"
    /\ LoginMode(vault.authType)
    /\ vault.vaultCS = 0
    /\ vault' = [vault EXCEPT !.vaultCS = t]
    /\ fetch' = [fetch EXCEPT ![t].pc = "login"]
    /\ VaultFrame

\* The login up to its first POST: it returns when it is not forced and the
\* vault holds a token that has not expired, fails when its credentials are
\* missing, and else posts.
login_test(t) ==
    /\ fetch[t].pc = "login"
    /\ LET me == fetch[t]
           pd == me.permissionDenied
       IN  IF ~pd /\ vault.clientToken # "" /\ ~isClientTokenExpired(vault, wall)
           THEN /\ fetch' = [fetch EXCEPT ![t].pc = "token"]
                /\ vault' = [vault EXCEPT !.vaultCS = 0]
           ELSE LET entered == [me EXCEPT !.forced = IF pd THEN @ + 1 ELSE @]
                IN  \/ /\ vault.authType \in {"appRole", "k8s"}
                       /\ fetch' = [fetch EXCEPT ![t] =
                             vaultAuthError([entered EXCEPT
                                 !.logins = Append(@, "failed")])]
                       /\ vault' = [vault EXCEPT !.vaultCS = 0]
                    \/ /\ fetch' = [fetch EXCEPT ![t] =
                             [entered EXCEPT !.pc = "post",
                                             !.numRetries = vault.retries]]
                       /\ UNCHANGED vault
    /\ VaultFrame

\* One POST of the login, as Post, up to the end of the login's block.
login_post(t) ==
    /\ fetch[t].pc = "post"
    /\ LET me     == [fetch[t] EXCEPT !.posts = @ + 1]
           failed == vaultAuthError([me EXCEPT !.logins = Append(@, "failed")])
       IN  \/ IF me.numRetries > 0
              THEN /\ fetch' = [fetch EXCEPT ![t] = [me EXCEPT !.numRetries = @ - 1]]
                   /\ UNCHANGED vault
              ELSE /\ fetch' = [fetch EXCEPT ![t] = failed]
                   /\ vault' = [vault EXCEPT !.vaultCS = 0]
           \/ /\ fetch' = [fetch EXCEPT ![t] = failed]
              /\ vault' = [vault EXCEPT !.vaultCS = 0]
           \/ \E res \in LoginResponses :
                 /\ vault' = [processClientTokenResponse(vault, res, wall)
                                 EXCEPT !.vaultCS = 0]
                 /\ fetch' = [u \in Threads |->
                       IF u = t
                       THEN [me EXCEPT !.logins = Append(@, "ok"), !.pc = "token"]
                       ELSE IF fetch[u].pc = "auth" /\ ~fetch[u].permissionDenied
                       THEN [fetch[u] EXCEPT !.waited = TRUE]
                       ELSE fetch[u]]
    /\ VaultFrame

\* clientToken.isEmpty() at the end of checkAuthentication and the header of
\* requestSecretAtLocation, after the login has returned.
checkAuthentication_token(t) ==
    /\ fetch[t].pc = "token"
    /\ fetch' = [fetch EXCEPT ![t] = AfterAuthentication(fetch[t], vault)]
    /\ UNCHANGED vault
    /\ VaultFrame

\* ------------------------------------------------ the cache's lock
\* The same calls with SecretCache::cs explicit: cs is 0 or the thread that
\* holds it.  A thread waits at "resolveSecret", "updateSecret" and
\* "getContents" for the lock and is inside the CriticalBlock at the position
\* named "in_" and the function; what getSecretEntry does between the blocks
\* it does without the lock.

LockFrame ==
    UNCHANGED <<vaultVars, certVars, fnVars, udpVars, locks, tick, advances,
                secretTimeoutMs, views, nextObj, overlapped>>

\* getSecret up to the call of SecretCache::resolveSecret: the names are
\* validated, the clock is read and the key is built.
getSecret_enter(t, reqs) ==
    \E req \in reqs :
        /\ CanStart(t)
        /\ calls' = calls - 1
        /\ LET rec == [Idle EXCEPT !.op = "getSecret", !.req = req,
                                   !.seen = Seen(KeyOfReq(req))]
           IN  th' = [th EXCEPT ![t] =
                        IF validateCategoryName(req.category) /\ validateSecretName(req.name)
                        THEN [rec EXCEPT !.pc = "resolveSecret", !.now = tick]
                        ELSE [rec EXCEPT !.pc = "done", !.raised = "InvalidName"]]
        /\ UNCHANGED <<cs, secrets, entries>>
        /\ LockFrame

Blocks == {"resolveSecret", "updateSecret", "getContents"}

InBlock(pc) ==
    IF pc = "resolveSecret" THEN "in_resolveSecret"
    ELSE IF pc = "updateSecret" THEN "in_updateSecret"
    ELSE "in_getContents"

\* CriticalBlock block(cs): the thread enters when no thread holds the lock.
CriticalBlock(t) ==
    /\ th[t].pc \in Blocks
    /\ cs = 0
    /\ cs' = t
    /\ th' = [th EXCEPT ![t].pc = InBlock(@)]
    /\ UNCHANGED <<secrets, entries, calls>>
    /\ LockFrame

\* The body of SecretCache::resolveSecret and the end of its block; the
\* variant keeps the lock when it returns.
SecretCache_resolveSecret_block_held(t) ==
    /\ th[t].pc = "in_resolveSecret"
    /\ LET r == SecretCache_resolveSecret(KeyOfReq(th[t].req), th[t].now)
       IN  /\ secrets' = r.secrets
           /\ entries' = r.entries
           /\ th' = [th EXCEPT ![t].match = r.result, ![t].pc = "needsRefresh"]
    /\ UNCHANGED <<cs, calls>>
    /\ LockFrame

SecretCache_resolveSecret_block(t) ==
    /\ th[t].pc = "in_resolveSecret"
    /\ LET r == SecretCache_resolveSecret(KeyOfReq(th[t].req), th[t].now)
       IN  /\ secrets' = r.secrets
           /\ entries' = r.entries
           /\ th' = [th EXCEPT ![t].match = r.result, ![t].pc = "needsRefresh"]
    /\ cs' = 0
    /\ UNCHANGED calls
    /\ LockFrame

\* match->needsRefresh(now) in getSecretEntry.
getSecretEntry_needsRefresh(t) ==
    /\ th[t].pc = "needsRefresh"
    /\ LET needs == needsRefresh(entries[th[t].match], th[t].now)
       IN  th' = [th EXCEPT ![t].refresh = needs,
                            ![t].pc = IF needs THEN FirstBackend(th[t].req.vaultId)
                                      ELSE "getContents"]
    /\ UNCHANGED <<cs, secrets, entries, calls>>
    /\ LockFrame

\* The end of getSecretEntry: with a tree resolved updateSecret is called,
\* otherwise match->noteFailedUpdate(now).
getSecretEntry_resolved(t) ==
    /\ th[t].pc = "update"
    /\ IF th[t].resolved.obj # 0
       THEN /\ th' = [th EXCEPT ![t].pc = "updateSecret"]
            /\ UNCHANGED entries
       ELSE /\ entries' = [entries EXCEPT ![th[t].match] = noteFailedUpdate(@, th[t].now)]
            /\ th' = [th EXCEPT ![t].pc = "getContents"]
    /\ UNCHANGED <<cs, secrets, calls>>
    /\ LockFrame

\* The body of SecretCache::updateSecret and the end of its block.
SecretCache_updateSecret_block(t) ==
    /\ th[t].pc = "in_updateSecret"
    /\ entries' = updateSecret(entries, th[t].match, th[t].resolved, th[t].now)
    /\ th' = [th EXCEPT ![t].pc = "getContents"]
    /\ cs' = 0
    /\ UNCHANGED <<secrets, calls>>
    /\ LockFrame

\* The body of SecretCache::getContents and the end of its block:
\* getSecretTree returns the contents linked.
SecretCache_getContents_block(t) ==
    /\ th[t].pc = "in_getContents"
    /\ th' = [th EXCEPT ![t].pc = "done",
                        ![t].ret = [NoRet EXCEPT !.tree = getContents(th[t].match)]]
    /\ cs' = 0
    /\ UNCHANGED <<secrets, entries, calls>>
    /\ LockFrame

\* ------------------------------------------------ the order of the locks
\* The critical sections a public operation enters and leaves, in the order
\* of its code, from the calls it makes.  Every lock is a CriticalSection;
\* one vault, one secret view and one certificate view stand for all.

Block(lock, body) == <<<<"enter", lock>>>> \o body \o <<<<"leave", lock>>>>

\* ensureSecretDirectory, which buildSecretPath calls in resolveLocalSecret.
ensureSecretDirectory_path == Block("secretCS", <<>>)

\* SecretCache::resolveSecret, updateSecret and getContents.
SecretCache_path == Block("cs", <<>>)

\* getLocalSecret: getSecret with the vault id "k8s".
getLocalSecret_path ==
    SecretCache_path \o ensureSecretDirectory_path \o SecretCache_path
        \o SecretCache_path

\* The vault manager is built with a vault that logs in at once.
ensureVaultManager_path_login ==
    Block("secretCS", Block("vaultCS", getLocalSecret_path))

\* ensureVaultManager building the manager: the constructor of a vault with a
\* client-secret reads it with getLocalSecret.
ensureVaultManager_path == Block("secretCS", getLocalSecret_path)

\* appRoleLogin: the role's secret id is read with getLocalSecret.
appRoleLogin_path == Block("vaultCS", getLocalSecret_path)

\* getSecretEntry for a request without vault id that needs a refresh.
getSecretEntry_path ==
    SecretCache_path \o ensureSecretDirectory_path \o ensureVaultManager_path
        \o appRoleLogin_path \o SecretCache_path

getSecret_path == getSecretEntry_path \o SecretCache_path

CSecret_getVersion_path == Block("secret.secretCs", getSecretEntry_path)

CSecret_getTree_path ==
    Block("secret.secretCs", getSecretEntry_path \o SecretCache_path)

\* CSyncedCertificateBase::createConfig.
createConfig_path == CSecret_getVersion_path \o CSecret_getTree_path

\* An accessor of a certificate view whose secret has changed.
CSyncedCertificateBase_path ==
    Block("cert.secretCs", CSecret_getVersion_path \o createConfig_path)

\* getIssuerTlsSyncedConfig building a view: the constructor of CIssuerConfig
\* calls resolveSecret and createConfig.
getIssuerTlsSyncedConfig_path ==
    Block("mtlsInfoCacheCS", getSecretEntry_path \o createConfig_path)

queryMtls_path == Block("queryMtlsCS", Block("mtlsInfoCacheCS", <<>>))

PublicPaths ==
    { ensureSecretDirectory_path, getSecret_path, CSecret_getTree_path,
      CSyncedCertificateBase_path, getIssuerTlsSyncedConfig_path, queryMtls_path }

\* A thread in no operation: nothing left to do and no lock held.
NoPath == [todo |-> <<>>, held |-> <<>>]

OrderFrame ==
    UNCHANGED <<vaultVars, certVars, fnVars, cs, udpVars, tick, advances,
                secretTimeoutMs, secrets, entries, views, th, nextObj, overlapped>>

\* A thread starts a public operation.
StartPath(t) ==
    /\ locks[t].todo = <<>>
    /\ calls > 0
    /\ \A u \in Threads : u < t => locks[u].todo # <<>>
    /\ calls' = calls - 1
    /\ \E path \in PublicPaths : locks' = [locks EXCEPT ![t].todo = path]
    /\ OrderFrame

Holds(t, lock) == \E i \in DOMAIN locks[t].held : locks[t].held[i] = lock

\* CriticalSection::enter: the thread waits while another thread is inside;
\* the thread that is inside enters again.
CriticalSection_enter(t) ==
    /\ locks[t].todo # <<>>
    /\ Head(locks[t].todo)[1] = "enter"
    /\ LET lock == Head(locks[t].todo)[2]
       IN  /\ \A u \in Threads \ {t} : ~Holds(u, lock)
           /\ locks' = [locks EXCEPT ![t].todo = Tail(@),
                                     ![t].held = Append(@, lock)]
    /\ UNCHANGED calls
    /\ OrderFrame

\* CriticalSection::leave at the end of the CriticalBlock.
CriticalSection_leave(t) ==
    /\ locks[t].todo # <<>>
    /\ Head(locks[t].todo)[1] = "leave"
    /\ locks' = [locks EXCEPT ![t].todo = Tail(@),
                              ![t].held = SubSeq(@, 1, Len(@) - 1)]
    /\ UNCHANGED calls
    /\ OrderFrame

\* ------------------------------------------------- certificate views
\* certs is the heap of CIssuerConfig objects, a pointer to one being its
\* index (0 the null pointer); mtlsInfoCache maps a key to such a pointer;
\* mtlsInfoCacheCS is 0 or the thread that holds it; cth[t] is the position
\* of thread t in getIssuerTlsSyncedConfig or in an accessor of a view, the
\* calls made from there running in th[t].

Certificates == <<"c", "e", "r", "t", "i", "f", "i", "c", "a", "t", "e", "s">>

Public == <<"p", "u", "b", "l", "i", "c">>

Anyone == <<"a", "n", "y", "o", "n", "e">>

NoConfig == [obj |-> 0, from |-> {}, trusted_peers |-> <<>>, enable |-> FALSE]

\* A CIssuerConfig as getIssuerTlsSyncedConfig constructs it, before the body
\* of its constructor runs.
CIssuerConfig(issuer, trustedPeers, isClientConnection, disableMTLS, secret) ==
    [issuer |-> issuer, trustedPeers |-> trustedPeers,
     isClientConnection |-> isClientConnection, disableMTLS |-> disableMTLS,
     secret |-> secret, secretCs |-> 0, config |-> NoConfig,
     secretHash |-> Zero32]

\* config after createConfig has read secretInfo: the certificates are copied
\* from secretInfo, the verify settings come from the constructor's arguments.
updateConfigFromSecret(cert, secretInfo) ==
    [obj |-> 1,
     from |-> secretInfo.tree,
     enable |-> ~cert.disableMTLS
                /\ (cert.isClientConnection \/ ~strieq(cert.issuer, Public)),
     trusted_peers |-> IF cert.trustedPeers # Null THEN cert.trustedPeers
                       ELSE Anyone]

CertIdle ==
    [pc |-> "idle", op |-> "none", issuer |-> Null, trustedPeers |-> Null,
     disableMTLS |-> FALSE, key |-> Null, cert |-> 0, ctor |-> FALSE,
     raised |-> "none", ret |-> 0, tree |-> NoConfig, version |-> Zero32]

CertBusy(u) == cth[u].pc \notin {"idle", "done"}

CanStartCert(t) ==
    /\ ~CertBusy(t)
    /\ calls > 0
    /\ \A u \in Threads : u < t => CertBusy(u)

\* The key under which getIssuerTlsSyncedConfig looks a view up.
MtlsKey(issuer, optTrustedPeers, disableMTLS) ==
    IF ~isEmptyString(optTrustedPeers) \/ disableMTLS
    THEN issuer \o <<"/">>
                \o (IF optTrustedPeers = Null THEN <<>> ELSE optTrustedPeers)
                \o <<"/">> \o (IF disableMTLS THEN <<"1">> ELSE <<"0">>)
    ELSE issuer

\* getIssuerTlsSyncedConfig up to its CriticalBlock: an empty issuer returns
\* null, otherwise the key is built and the thread goes for mtlsInfoCacheCS.
getIssuerTlsSyncedConfig(t, issuers, peers, flags) ==
    \E issuer \in issuers, optTrustedPeers \in peers, disableMTLS \in flags :
        /\ CanStartCert(t)
        /\ calls' = calls - 1
        /\ LET rec == [CertIdle EXCEPT !.op = "getIssuerTlsSyncedConfig",
                                       !.issuer = issuer,
                                       !.trustedPeers = optTrustedPeers,
                                       !.disableMTLS = disableMTLS]
           IN  cth' = [cth EXCEPT ![t] =
                         IF isEmptyString(issuer)
                         THEN [rec EXCEPT !.pc = "done"]
                         ELSE [rec EXCEPT !.pc = "lock",
                                          !.key = MtlsKey(issuer, optTrustedPeers,
                                                          disableMTLS)]]
        /\ UNCHANGED <<vaultVars, fnVars, cs, udpVars, locks, useMtls, tick, advances, secretTimeoutMs,
                       secrets, entries, views, th, nextObj, overlapped,
                       mtlsInfoCacheCS, mtlsInfoCache, certs>>

\* mtlsInfoCacheCS is entered and the key looked up: a view found is
\* returned; otherwise the constructor of a new CIssuerConfig starts, with
\* the lock held, by calling resolveSecret("certificates", issuer).
getIssuerTlsSyncedConfig_find(t) ==
    /\ cth[t].pc = "lock"
    /\ mtlsInfoCacheCS = 0
    /\ IF cth[t].key \in DOMAIN mtlsInfoCache
       THEN /\ cth' = [cth EXCEPT ![t].pc = "done",
                                  ![t].ret = mtlsInfoCache[cth[t].key]]
            /\ UNCHANGED <<mtlsInfoCacheCS, secrets, entries, th, overlapped>>
       ELSE /\ mtlsInfoCacheCS' = t
            /\ cth' = [cth EXCEPT ![t].pc = "resolveSecret"]
            /\ StartCall(t, "resolveSecret",
                         Req(Certificates, cth[t].issuer, Null, Null), Null, FALSE)
    /\ UNCHANGED <<vaultVars, fnVars, cs, udpVars, locks, useMtls, tick, advances, secretTimeoutMs, views,
                   nextObj, calls, mtlsInfoCache, certs>>

\* The constructor once resolveSecret is back: an exception leaves
\* getIssuerTlsSyncedConfig (and its CriticalBlock); otherwise createConfig
\* starts with secret->getVersion().
CIssuerConfig_createConfig(t) ==
    /\ cth[t].pc = "resolveSecret"
    /\ th[t].pc = "done"
    /\ IF th[t].raised # "none"
       THEN /\ mtlsInfoCacheCS' = 0
            /\ cth' = [cth EXCEPT ![t].pc = "done", ![t].raised = th[t].raised]
            /\ th' = [th EXCEPT ![t] = Idle]
            /\ UNCHANGED <<certs, views, secrets, entries, overlapped>>
       ELSE /\ certs' = Append(certs, CIssuerConfig(cth[t].issuer, cth[t].trustedPeers,
                                                    FALSE, cth[t].disableMTLS,
                                                    th[t].ret.view))
            /\ cth' = [cth EXCEPT ![t].pc = "getVersion",
                                  ![t].cert = Len(certs) + 1,
                                  ![t].ctor = TRUE]
            /\ StartAccess(t, th[t].ret.view, "getVersion", Null)
            /\ UNCHANGED mtlsInfoCacheCS
    /\ UNCHANGED <<vaultVars, fnVars, cs, udpVars, locks, useMtls, tick, advances, secretTimeoutMs, nextObj,
                   calls, mtlsInfoCache>>

\* createConfig: secretHash = secret->getVersion() is stored and
\* secret->getTree() is called.
createConfig_getTree(t) ==
    /\ cth[t].pc = "getVersion"
    /\ th[t].pc = "done"
    /\ certs' = [certs EXCEPT ![cth[t].cert].secretHash = th[t].ret.version]
    /\ cth' = [cth EXCEPT ![t].pc = "getTree"]
    /\ StartAccess(t, certs[cth[t].cert].secret, "getTree", Null)
    /\ UNCHANGED <<vaultVars, fnVars, cs, udpVars, locks, useMtls, tick, advances, secretTimeoutMs, nextObj,
                   calls, mtlsInfoCacheCS, mtlsInfoCache>>

\* The rest of createConfig: config is built from secretInfo or cleared.
\* In the constructor the view is then put into mtlsInfoCache and returned,
\* and mtlsInfoCacheCS is left; in an accessor the result is returned and the
\* view's lock is left.
createConfig_return(t) ==
    /\ cth[t].pc = "getTree"
    /\ th[t].pc = "done"
    /\ LET c          == cth[t].cert
           secretInfo == th[t].ret.tree
           config     == IF secretInfo.obj # 0
                         THEN updateConfigFromSecret(certs[c], secretInfo)
                         ELSE NoConfig
       IN  /\ certs' = [certs EXCEPT ![c].config = config, ![c].secretCs = 0]
           /\ cth' = [cth EXCEPT ![t].pc = "done", ![t].ret = c,
                                 ![t].tree = config,
                                 ![t].version = certs[c].secretHash]
           /\ IF cth[t].ctor
              THEN /\ mtlsInfoCache' = [k \in DOMAIN mtlsInfoCache \cup {cth[t].key} |->
                                          IF k \in DOMAIN mtlsInfoCache
                                          THEN mtlsInfoCache[k] ELSE c]
                   /\ mtlsInfoCacheCS' = 0
              ELSE UNCHANGED <<mtlsInfoCache, mtlsInfoCacheCS>>
    /\ th' = [th EXCEPT ![t] = Idle]
    /\ UNCHANGED <<vaultVars, fnVars, cs, udpVars, locks, useMtls, tick, advances, secretTimeoutMs, secrets,
                   entries, views, nextObj, calls, overlapped>>

CertOps == {"getTree", "getVersion"}

\* CSyncedCertificateBase::getTree and getVersion: secretCs is entered and
\* checkUptoDate calls secret->getVersion().
CSyncedCertificateBase_access(t) ==
    \E c \in 1..Len(certs), op \in CertOps :
        /\ CanStartCert(t)
        /\ \E k \in DOMAIN mtlsInfoCache : mtlsInfoCache[k] = c
        /\ certs[c].secretCs = 0
        /\ calls' = calls - 1
        /\ certs' = [certs EXCEPT ![c].secretCs = t]
        /\ cth' = [cth EXCEPT ![t] = [CertIdle EXCEPT !.pc = "checkUptoDate",
                                                      !.op = op, !.cert = c]]
        /\ StartAccess(t, certs[c].secret, "getVersion", Null)
        /\ UNCHANGED <<vaultVars, fnVars, cs, udpVars, locks, useMtls, tick, advances, secretTimeoutMs,
                       nextObj, mtlsInfoCacheCS, mtlsInfoCache>>

\* Whether checkUptoDate calls createConfig.
OutOfDate(secretHash, version) == secretHash # version

\* checkUptoDate once secret->getVersion() is back: createConfig starts when
\* the version differs from secretHash, otherwise the accessor returns.
checkUptoDate(t) ==
    /\ cth[t].pc = "checkUptoDate"
    /\ th[t].pc = "done"
    /\ LET c == cth[t].cert
       IN  IF OutOfDate(certs[c].secretHash, th[t].ret.version)
           THEN /\ cth' = [cth EXCEPT ![t].pc = "getVersion"]
                /\ StartAccess(t, certs[c].secret, "getVersion", Null)
                /\ UNCHANGED certs
           ELSE /\ cth' = [cth EXCEPT ![t].pc = "done", ![t].ret = c,
                                      ![t].tree = certs[c].config,
                                      ![t].version = certs[c].secretHash]
                /\ certs' = [certs EXCEPT ![c].secretCs = 0]
                /\ th' = [th EXCEPT ![t] = Idle]
                /\ UNCHANGED <<secrets, entries, views, overlapped>>
    /\ UNCHANGED <<vaultVars, fnVars, cs, udpVars, locks, useMtls, tick, advances, secretTimeoutMs, nextObj,
                   calls, mtlsInfoCacheCS, mtlsInfoCache>>

\* The key of the entry that queryMtls makes for the node's own key files.
Local == <<"l", "o", "c", "a", "l">>

\* The synced tree that queryMtls creates from the node's key files.
createSyncedPropertyTree(info) == [tree |-> info]

\* queryMtls in a bare-metal build, under queryMtlsCS from its first line to
\* its last: the first call settles useMtls from the environment's setting
\* and, when the key files are there, enters mtlsInfoCacheCS, asserts that no
\* entry has the key "local" and puts one in.
queryMtls(t) ==
    \E bareMetalConfig \in BOOLEAN, keyFiles \in BOOLEAN :
        /\ CanStartCert(t)
        /\ calls' = calls - 1
        /\ LET rec == [CertIdle EXCEPT !.op = "queryMtls", !.pc = "done"]
           IN  IF useMtls # "UNINIT"
               THEN /\ cth' = [cth EXCEPT ![t] = rec]
                    /\ UNCHANGED <<useMtls, mtlsInfoCache, certs>>
               ELSE IF ~bareMetalConfig
               THEN /\ useMtls' = "DISABLED"
                    /\ cth' = [cth EXCEPT ![t] = rec]
                    /\ UNCHANGED <<mtlsInfoCache, certs>>
               ELSE IF ~keyFiles
               THEN /\ useMtls' = "ENABLED"
                    /\ cth' = [cth EXCEPT ![t] = rec]
                    /\ UNCHANGED <<mtlsInfoCache, certs>>
               ELSE /\ mtlsInfoCacheCS = 0
                    /\ useMtls' = "ENABLED"
                    /\ IF Local \in DOMAIN mtlsInfoCache
                       THEN /\ cth' = [cth EXCEPT ![t] =
                                         [rec EXCEPT !.key = Local,
                                                     !.raised = "assertex"]]
                            /\ UNCHANGED <<mtlsInfoCache, certs>>
                       ELSE /\ certs' = Append(certs, createSyncedPropertyTree(
                                                 {"certificate", "privatekey"}))
                            /\ mtlsInfoCache' =
                                  [k \in DOMAIN mtlsInfoCache \cup {Local} |->
                                      IF k = Local THEN Len(certs) + 1
                                      ELSE mtlsInfoCache[k]]
                            /\ cth' = [cth EXCEPT ![t] = [rec EXCEPT !.key = Local]]
        /\ UNCHANGED <<vaultVars, fnVars, cs, udpVars, locks, tick, advances,
                       secretTimeoutMs, secrets, entries, views, th, nextObj,
                       overlapped, mtlsInfoCacheCS>>

\* Arguments of getIssuerTlsSyncedConfig.
Issuers == { <<"a">>, <<"b">> }

TrustedPeers == { Null, <<>>, <<"p">> }

\* ------------------------------------------------ functions without state
\* arg holds the arguments of one call, out the function called and its result.

NoArg == [fn |-> "none"]

NoOut == [op |-> "none"]

\* All strings over chars of length up to n.
Strings(chars, n) == UNION {[1..k -> chars] : k \in 0..n}

fnUnchanged ==
    UNCHANGED <<vaultVars, certVars, cs, udpVars, locks, arg, tick, advances, secretTimeoutMs,
                secrets, entries, views, th, nextObj, calls, overlapped>>

\* ---- name validation

MaxNameLen == 3

NameChrs == {"a", "1", ".", "-", "_", "/", " "}

NameExamples ==
    { <<"a", "b", "c">>, <<"a", ".", "b", "-", "c">>, <<"a", "_", "b">>,
      <<".", "x">>, <<"x", ".">>, <<"x", "/", "y">>, <<".", ".", "/", "x">>,
      <<"a", " ", "b">>, <<"_", "a", "b", "c">>, <<"a", "b", "c", "_">> }

NameArgs ==
    {[fn |-> "validate", name |-> s] :
        s \in Strings(NameChrs, MaxNameLen) \cup NameExamples}

validateCategoryName_call ==
    /\ arg.fn = "validate"
    /\ out' = [op |-> "validateCategoryName", ok |-> validateCategoryName(arg.name)]
    /\ fnUnchanged

validateSecretName_call ==
    /\ arg.fn = "validate"
    /\ out' = [op |-> "validateSecretName", ok |-> validateSecretName(arg.name)]
    /\ fnUnchanged

validateKeyName_call ==
    /\ arg.fn = "validate"
    /\ out' = [op |-> "validateKeyName", ok |-> validateKeyName(arg.name)]
    /\ fnUnchanged

\* ---- the cache key

\* Two requests whose names pass validation; the vault id and the version are
\* passed as the caller gives them.
KeyRequests ==
    { Req(Cat, name, vaultId, version) :
        name \in {Sec, <<"s", "2">>},
        vaultId \in {Null, <<"x">>, <<"x", "#", "1">>},
        version \in {Null, <<"1">>} }

KeyPairArgs == {[fn |-> "key", a |-> a, b |-> b] : a, b \in KeyRequests}

\* The keys getSecretEntry builds for two requests.
getSecretEntry_key ==
    /\ arg.fn = "key"
    /\ out' = [op |-> "getSecretEntry_key",
               keys |-> <<KeyOfReq(arg.a), KeyOfReq(arg.b)>>]
    /\ fnUnchanged

\* ---- decoding a vault's response

\* A node of a property tree read from JSON: its own value and its children.
Leaf(v) == [value |-> v, kids |-> {}]

Branch(kids) == [value |-> "", kids |-> kids]

NoNode == [obj |-> 0, node |-> Leaf("")]

NodePtr(n) == [obj |-> 1, node |-> n]

Data == <<"d", "a", "t", "a">>

\* The first segment of a path and what follows its '/'.
RECURSIVE PathHead(_)
PathHead(path) ==
    IF path = <<>> \/ Head(path) = "/" THEN <<>>
    ELSE <<Head(path)>> \o PathHead(Tail(path))

PathRest(path) ==
    LET n == Len(PathHead(path))
    IN  IF n + 1 >= Len(path) THEN <<>> ELSE SubSeq(path, n + 2, Len(path))

\* IPropertyTree::getPropTree: the node at a '/'-separated path of child
\* names, null when a step of the path has no such child.
RECURSIVE getPropTree(_, _)
getPropTree(tree, path) ==
    IF tree.obj = 0 THEN NoNode
    ELSE IF path = <<>> THEN tree
    ELSE LET name == PathHead(path)
         IN  IF \E p \in tree.node.kids : p[1] = name
             THEN getPropTree(
                      NodePtr((CHOOSE p \in tree.node.kids : p[1] = name)[2]),
                      PathRest(path))
             ELSE NoNode

\* The body of a response: no text, text that is not JSON, or the JSON
\* document it spells.
EmptyContent == [text |-> FALSE, json |-> NoNode]

Garbage == [text |-> TRUE, json |-> NoNode]

Json(n) == [text |-> TRUE, json |-> NodePtr(n)]

\* createPTreeFromJSONString: the tree the text spells, null when it spells none.
createPTreeFromJSONString(content) == content.json

kv_v1 == <<"k", "v", "_", "v", "1">>

kv_v2 == <<"k", "v", "_", "v", "2">>

getSecretType_always_v2(s) == "kv_v2"

getSecretType(s) ==
    IF isEmptyString(s) THEN "kv_v2"
    ELSE IF streq(s, kv_v1) THEN "kv_v1"
    ELSE "kv_v2"

createPTreeFromVaultSecret_swapped(content, kind) ==
    IF ~content.text THEN NoNode
    ELSE LET tree == createPTreeFromJSONString(content)
         IN  IF tree.obj = 0 THEN NoNode
             ELSE IF kind = "kv_v1" THEN getPropTree(tree, Data \o <<"/">> \o Data)
             ELSE getPropTree(tree, Data)

createPTreeFromVaultSecret(content, kind) ==
    IF ~content.text THEN NoNode
    ELSE LET tree == createPTreeFromJSONString(content)
         IN  IF tree.obj = 0 THEN NoNode
             ELSE IF kind = "kv_v1" THEN getPropTree(tree, Data)
             ELSE getPropTree(tree, Data \o <<"/">> \o Data)

\* The key/value pairs a vault may hold for a secret.
Payloads == { Branch({}), Branch({<<KeyName, Leaf("v1")>>}),
              Branch({<<KeyName, Leaf("v2")>>}) }

Metadata == <<"m">>

\* Response documents: a kv_v2 envelope, a kv_v1 envelope (whose payload may
\* itself have a key named data), a scalar data, no data at all.
Documents ==
    {Branch({<<Data, Branch({<<Data, p>>, <<Metadata, Leaf("v1")>>})>>}) : p \in Payloads}
    \cup {Branch({<<Data, p>>}) : p \in Payloads}
    \cup {Branch({<<Data, Branch({<<KeyName, Leaf("v1")>>, <<Data, Leaf("v2")>>})>>})}
    \cup {Branch({<<Metadata, p>>}) : p \in Payloads}
    \cup {Branch({<<Data, Leaf("v1")>>}), Branch({})}
    \cup {Branch({<<Data, Branch({<<Data, Branch({<<KeyName, Leaf("v1")>>})>>})>>})}

Contents == {EmptyContent, Garbage} \cup {Json(d) : d \in Documents}

\* Values of a vault's @kind attribute.
Kinds == { Null, <<>>, kv_v1, kv_v2, <<"K", "V", "_", "V", "1">>, <<"k", "v">> }

DecodeArgs ==
    {[fn |-> "decode", content |-> c, kind |-> k] : c \in Contents, k \in Kinds}

\* The contents a decoded tree becomes: its scalar properties.
Props(n) ==
    {<<p[1], p[2].value>> : p \in {q \in n.kids : q[2].kids = {} /\ q[2].value # ""}}

\* resolveVaultSecret once the vault has answered with a body.
resolveVaultSecret_decode ==
    /\ arg.fn = "decode"
    /\ out' = [op |-> "resolveVaultSecret",
               resolved |-> createPTreeFromVaultSecret(arg.content,
                                                       getSecretType(arg.kind))]
    /\ fnUnchanged

\* The cache entry the decoded body is for: never loaded, or loaded before.
DecodeEntries ==
    { SecretCacheEntry(Zero32),
      updateContents(SecretCacheEntry(Zero32),
                     [obj |-> 1, tree |-> {<<KeyName, "v1">>}], Zero32) }

\* The end of getSecretEntry for a decoded body.
getSecretEntry_decoded ==
    /\ out.op = "resolveVaultSecret"
    /\ \E e \in DecodeEntries :
          LET now      == Add32(Zero32, U32(1))
              resolved == IF out.resolved.obj = 0 THEN NoTree
                          ELSE [obj |-> 2, tree |-> Props(out.resolved.node)]
          IN  out' = [op |-> "getSecretEntry",
                      decoded |-> out.resolved,
                      before |-> e,
                      now |-> now,
                      entry |-> Installed(<<e>>, 1, resolved, now)[1]]
    /\ fnUnchanged

\* ---- the secret name of a URL

\* The index of the first c in s, 0 when there is none (strchr, memchr).
IndexOf(s, c) ==
    IF \E i \in 1..Len(s) : s[i] = c
    THEN CHOOSE i \in 1..Len(s) : s[i] = c /\ \A j \in 1..(i - 1) : s[j] # c
    ELSE 0

\* strnicmp(a, b, n) = 0: the first n characters agree without regard to case.
strnicmp0(a, b, n) ==
    \A i \in 1..n :
        tolower(CharAt(a, i)) = tolower(CharAt(b, i))

Drop(s, n) == IF n >= Len(s) THEN <<>> ELSE SubSeq(s, n + 1, Len(s))

Take(s, n) == IF n >= Len(s) THEN s ELSE SubSeq(s, 1, n)

\* The decimal digits of a number, as append(unsigned) writes them.
DigitOf == <<"0", "1", "2", "3", "4", "5", "6", "7", "8", "9">>

RECURSIVE ToDecimal(_)
ToDecimal(n) ==
    IF n < 10 THEN <<DigitOf[n + 1]>>
    ELSE ToDecimal(n \div 10) \o <<DigitOf[(n % 10) + 1]>>

\* atoi: the value of the leading decimal digits, 0 when there are none.
RECURSIVE atoi_from(_, _)
atoi_from(s, acc) ==
    IF s = <<>> \/ Head(s) \notin Digit THEN acc
    ELSE atoi_from(Tail(s), 10 * acc + (Ascii[Head(s)] - 48))

atoi(s) == atoi_from(s, 0)

\* The hexadecimal digits of a 32-bit number, as %x writes them.
HexOf == <<"0", "1", "2", "3", "4", "5", "6", "7", "8", "9", "a", "b", "c", "d", "e", "f">>

RECURSIVE ToHexPadded(_, _)
ToHexPadded(n, width) ==
    IF width = 0 THEN <<>>
    ELSE ToHexPadded(n \div 16, width - 1) \o <<HexOf[(n % 16) + 1]>>

RECURSIVE ToHex16(_)
ToHex16(n) ==
    IF n < 16 THEN <<HexOf[n + 1]>>
    ELSE ToHex16(n \div 16) \o <<HexOf[(n % 16) + 1]>>

ToHex(h) == IF h[1] = 0 THEN ToHex16(h[2]) ELSE ToHex16(h[1]) \o ToHexPadded(h[2], 4)

\* Exclusive or of two numbers, bit by bit.
RECURSIVE BitXor(_, _)
BitXor(a, b) ==
    IF a = 0 /\ b = 0 THEN 0
    ELSE ((a + b) % 2) + 2 * BitXor(a \div 2, b \div 2)

\* h * 16777619 (0x01000193) modulo 2^32.
FnvMul(h) ==
    LET lo == h[2] * 403
        hi == h[1] * 403 + h[2] * 256 + (lo \div Half)
    IN  <<hi % Half, lo % Half>>

\* hashc: each of the first len octets is mixed into the hash, xor then
\* multiplication by the FNV prime.
RECURSIVE hashc(_, _, _)
hashc(s, len, initval) ==
    IF len = 0 THEN initval
    ELSE LET h == hashc(s, len - 1, initval)
         IN  FnvMul(<<h[1], BitXor(h[2], Ascii[s[len]])>>)

\* hashcz: hashc over the whole zero-terminated string.
hashcz(s, initval) == hashc(s, Len(s), initval)

replaceExtraHostAndPortChars(s) ==
    [i \in 1..Len(s) |-> IF s[i] = "." \/ s[i] = ":" THEN "-" ELSE s[i]]

\* The port left after the default port of the scheme has been suppressed.
PortAfterScheme(scheme, port) ==
    IF scheme # Null /\ strnicmp0(<<"h", "t", "t", "p">>, scheme, 4)
    THEN IF CharAt(scheme, 5) = "s"
         THEN IF port = 443 THEN 0 ELSE port
         ELSE IF CharAt(scheme, 5) = ":"
         THEN IF port = 80 THEN 0 ELSE port
         ELSE port
    ELSE port

\* The hash of the path and of the user name of the user:password pair.
HashOfPathAndUser_password(userPasswordPair, path) ==
    LET h1 == IF ~isEmptyString(path) THEN hashcz(path, Zero32) ELSE Zero32
    IN  IF ~isEmptyString(userPasswordPair)
        THEN hashcz(userPasswordPair, h1)
        ELSE h1

HashOfPathAndUser(userPasswordPair, path) ==
    LET h1 == IF ~isEmptyString(path) THEN hashcz(path, Zero32) ELSE Zero32
    IN  IF ~isEmptyString(userPasswordPair)
        THEN LET delim == IndexOf(userPasswordPair, ":")
             IN  IF delim # 0
                 THEN hashc(userPasswordPair, delim - 1, h1)
                 ELSE hashcz(userPasswordPair, h1)
        ELSE h1

generateDynamicUrlSecretName(scheme, userPasswordPair, host, port, path) ==
    LET ssl       == scheme # Null /\ strnicmp0(<<"h", "t", "t", "p">>, scheme, 4)
                        /\ CharAt(scheme, 5) = "s"
        port1     == PortAfterScheme(scheme, port)
        named     == replaceExtraHostAndPortChars(
                         <<"h", "t", "t", "p", "-", "c", "o", "n", "n", "e", "c", "t", "-">>
                         \o (IF ssl THEN <<"s", "s", "l", "-">> ELSE <<>>)
                         \o (IF host = Null THEN <<>> ELSE host))
        withPort  == IF port1 # 0 THEN named \o <<"-">> \o ToDecimal(port1)
                     ELSE named
        hashvalue == HashOfPathAndUser(userPasswordPair, path)
    IN  IF hashvalue # Zero32 THEN withPort \o <<"-">> \o ToHex(hashvalue)
        ELSE withPort

\* extractUrlProtocol: the scheme as written to the caller's buffer and the
\* rest of the URL; an unrecognised protocol throws.
extractUrlProtocol(url) ==
    IF strnicmp0(url, <<"H", "T", "T", "P", "S", ":", "/", "/">>, 8)
    THEN [ok |-> TRUE, scheme |-> <<"h", "t", "t", "p", "s", ":", "/", "/">>, rest |-> Drop(url, 8)]
    ELSE IF strnicmp0(url, <<"H", "T", "T", "P", ":", "/", "/">>, 7)
    THEN [ok |-> TRUE, scheme |-> <<"h", "t", "t", "p", ":", "/", "/">>, rest |-> Drop(url, 7)]
    ELSE [ok |-> FALSE, scheme |-> <<>>, rest |-> <<>>]

splitUrlSections(url) ==
    LET p    == extractUrlProtocol(url)
        path == IndexOf(p.rest, "/")
    IN  [ok        |-> p.ok,
         scheme    |-> p.scheme,
         authority |-> IF path = 0 THEN p.rest ELSE Take(p.rest, path - 1),
         fullpath  |-> IF path = 0 \/ Drop(p.rest, path - 1) = <<"/">>
                       THEN <<>> ELSE Drop(p.rest, path - 1)]

splitUrlAddress(address) ==
    LET sep == IndexOf(address, ":")
    IN  IF sep = 0 THEN [host |-> address, port |-> <<>>]
        ELSE [host |-> Take(address, sep - 1), port |-> Drop(address, sep)]

splitUrlAuthority(authority) ==
    LET at == IndexOf(authority, "@")
    IN  IF at = 0
        THEN [user |-> <<>>, password |-> <<>>] @@ splitUrlAddress(authority)
        ELSE LET userinfo == Take(authority, at - 1)
                 sep      == IndexOf(userinfo, ":")
             IN  [user     |-> IF sep = 0 THEN userinfo ELSE Take(userinfo, sep - 1),
                  password |-> IF sep = 0 THEN <<>> ELSE Drop(userinfo, sep)]
                 @@ splitUrlAddress(Drop(authority, at))

splitUrlIsolateScheme(url) ==
    LET s == splitUrlSections(url)
    IN  [ok |-> s.ok, scheme |-> s.scheme, path |-> s.fullpath]
        @@ splitUrlAuthority(s.authority)

\* The overload that takes a URL: the name, or the exception of the protocol.
generateDynamicUrlSecretName_url(url, inputUsername) ==
    LET u        == splitUrlIsolateScheme(url)
        username == IF ~isEmptyString(inputUsername) THEN inputUsername ELSE u.user
        portNum  == IF Len(u.port) # 0 THEN atoi(u.port) ELSE 0
    IN  IF ~u.ok THEN [raised |-> TRUE, name |-> <<>>]
        ELSE [raised |-> FALSE,
              name |-> generateDynamicUrlSecretName(u.scheme, username, u.host,
                                                    portNum, u.path)]

Schemes == { <<"h", "t", "t", "p">>, <<"h", "t", "t", "p", "s">>, <<"h", "t", "t", "p", ":", "/", "/">>, <<"h", "t", "t", "p", "s", ":", "/", "/">>, <<"H", "T", "T", "P", "S", ":", "/", "/">>, Null }

UserPasswordPairs ==
    { Null, <<>>, <<"u">>, <<"u", ":">>, <<"u", ":", "p">>, <<"u", ":", "q">>,
      <<"w">>, <<"w", ":", "p">>, <<":", "p">> }

Hosts == { <<"h">>, <<"h", ".", "x">> }

Ports == { 0, 80, 443, 8080 }

Paths == { Null, <<>>, <<"/", "p">> }

SecretNameArgs ==
    {[fn |-> "name", scheme |-> s, userPasswordPair |-> u, host |-> h,
      port |-> p, path |-> q] :
        s \in Schemes, u \in UserPasswordPairs, h \in Hosts, p \in Ports,
        q \in Paths}

Urls ==
    { <<"h", "t", "t", "p", ":", "/", "/", "h", "/">>, <<"h", "t", "t", "p", ":", "/", "/", "h", ":", "8", "0", "/">>, <<"h", "t", "t", "p", ":", "/", "/", "h">>, <<"h", "t", "t", "p", ":", "/", "/", "h", ":", "8", "0", "8", "0", "/", "p">>,
      <<"h", "t", "t", "p", "s", ":", "/", "/", "h", "/">>, <<"h", "t", "t", "p", "s", ":", "/", "/", "h", ":", "4", "4", "3", "/">>,
      <<"h", "t", "t", "p", ":", "/", "/", "u", ":", "p", "@", "h", ":", "8", "0", "/", "p">>, <<"h", "t", "t", "p", ":", "/", "/", "u", "@", "h", "/", "p">>,
      <<"H", "T", "T", "P", "S", ":", "/", "/", "h", ":", "4", "4", "3">>, <<"f", "t", "p", ":", "/", "/", "h", "/">> }

UrlArgs ==
    {[fn |-> "url", url |-> u, inputUsername |-> n] :
        u \in Urls, n \in {Null, <<>>, <<"w">>}}

generateDynamicUrlSecretName_call ==
    /\ arg.fn = "name"
    /\ out' = [op |-> "generateDynamicUrlSecretName",
               name |-> generateDynamicUrlSecretName(arg.scheme, arg.userPasswordPair,
                                                     arg.host, arg.port, arg.path)]
    /\ fnUnchanged

generateDynamicUrlSecretName_url_call ==
    /\ arg.fn = "url"
    /\ LET r == generateDynamicUrlSecretName_url(arg.url, arg.inputUsername)
       IN  out' = [op |-> "generateDynamicUrlSecretName_url",
                   raised |-> r.raised, name |-> r.name]
    /\ fnUnchanged

\* ---- the UDP key

\* What <mount>/certificates/udp/tls.key can be: no file, a file the PEM
\* reader finds no EC private key in, and a key of two bytes.
UdpKeyFiles ==
    { [exists |-> FALSE, priv |-> <<>>],
      [exists |-> TRUE,  priv |-> <<>>],
      [exists |-> TRUE,  priv |-> <<7, 0>>] }

\* openssl says whether the build has _USE_OPENSSL with OpenSSL 1.1 or later.
UdpArgs ==
    {[fn |-> "udp", openssl |-> b, file |-> f] : b \in BOOLEAN, f \in UdpKeyFiles}

initSecretUdpKey ==
    /\ arg.fn = "udp"
    /\ out' = [op |-> "initSecretUdpKey"]
    /\ IF udpKeyInitialized
       THEN UNCHANGED udpVars
       ELSE IF arg.openssl /\ ~arg.file.exists
       THEN UNCHANGED udpVars
       ELSE /\ udpKey' = IF arg.openssl /\ Len(arg.file.priv) # 0
                         THEN arg.file.priv ELSE udpKey
            /\ udpKeyInitialized' = TRUE
    /\ UNCHANGED <<vaultVars, certVars, cs, locks, arg, tick, advances, secretTimeoutMs,
                   secrets, entries, views, th, nextObj, calls, overlapped>>

getSecretUdpKey ==
    /\ arg.fn = "udp"
    /\ \E required \in BOOLEAN :
          out' = [op |-> "getSecretUdpKey", required |-> required,
                  raised |-> IF ~udpKeyInitialized THEN "NotInitialized"
                             ELSE IF required /\ Len(udpKey) = 0 THEN "NotFound"
                             ELSE "none",
                  key |-> udpKey]
    /\ fnUnchanged

\* ---- a secret read from the local directory

\* The longest file written to the secret's directory.
MaxFileLen == 2

\* Bytes are numbers; a file's content is a sequence of them.
Bytes == {0, 104, 255}

\* A name that can be the tag of a property: a letter, '_' or ':' first, then
\* letters, digits, ':', '_', '.' and '-'.
validateXMLTag(name) ==
    /\ Len(name) > 0
    /\ name[1] \in Lower \cup Upper \cup {"_", ":"}
    /\ \A i \in 2..Len(name) : isalnum(name[i]) \/ name[i] \in {":", "_", ".", "-"}

\* The directory <mount>/<category>/<name>/ exists or not, and has a
\* sequence of entries [name, isDir, content].
Directory(files) == [exists |-> TRUE, entries |-> files]

File(name, content) == [name |-> name, isDir |-> FALSE, content |-> content]

Dir(name) == [name |-> name, isDir |-> TRUE, content |-> <<>>]

\* The entries of a directory from the i-th on that the loop of resolveLocalSecret
\* sets as properties; the variant leaves the loop at the first entry skipped.
RECURSIVE LoadedFrom_break(_, _)
LoadedFrom_break(dir, i) ==
    IF i > Len(dir) THEN {}
    ELSE IF dir[i].isDir \/ ~validateXMLTag(dir[i].name) \/ Len(dir[i].content) = 0
    THEN {}
    ELSE {<<dir[i].name, dir[i].content>>} \cup LoadedFrom_break(dir, i + 1)

RECURSIVE LoadedFrom(_, _)
LoadedFrom(dir, i) ==
    IF i > Len(dir) THEN {}
    ELSE IF dir[i].isDir \/ ~validateXMLTag(dir[i].name) \/ Len(dir[i].content) = 0
    THEN LoadedFrom(dir, i + 1)
    ELSE {<<dir[i].name, dir[i].content>>} \cup LoadedFrom(dir, i + 1)

\* resolveLocalSecret on a given directory: null when it is missing or has
\* no entry, else a new tree of the files loaded.
resolveLocalSecret_read(dir) ==
    IF ~dir.exists \/ Len(dir.entries) = 0 THEN NoTree
    ELSE [obj |-> nextObj, tree |-> LoadedFrom(dir.entries, 1)]

\* getSecretValue(category, name, key, required) on an empty cache, with no
\* vault configured and dir as the secret's directory: getSecretEntry creates
\* the entry, resolves it locally and installs what it found; getSecretValue
\* then reads the key from the entry's contents.
getSecretValue_fresh(req, dir, key, required) ==
    IF ~(validateCategoryName(req.category) /\ validateSecretName(req.name))
    THEN [raised |-> "InvalidName", ret |-> NoRet]
    ELSE LET r        == SecretCache_resolveSecret(KeyOfReq(req), tick)
             match    == r.entries[r.result]
             resolved == resolveLocalSecret_read(dir)
             contents == IF needsRefresh(match, tick) /\ resolved.obj # 0
                         THEN resolved ELSE match.contents
         IN  getSecretValue_return(contents, key, required)

FileNames == { KeyName, <<"1">>, <<"a", ".", "b">>, <<"a", " ", "b">> }

\* What else the directory holds besides the file written.
OtherEntries == { <<>>, <<Dir(<<"d">>), File(<<".", "x">>, <<104>>), File(<<"e">>, <<>>)>> }

LocalArgs ==
    {[fn |-> "local", key |-> k, bytes |-> b, others |-> o, required |-> r] :
        k \in FileNames, b \in Strings(Bytes, MaxFileLen), o \in OtherEntries,
        r \in BOOLEAN}

\* The file <mount>/c/s/<key> holds arg.bytes and getSecretValue is called
\* with an empty result buffer.
getSecretValue_local ==
    /\ arg.fn = "local"
    /\ LET dir == Directory(arg.others \o <<File(arg.key, arg.bytes)>>)
           r   == getSecretValue_fresh(Req(Cat, Sec, Null, Null), dir, arg.key,
                                       arg.required)
       IN  out' = [op |-> "getSecretValue", raised |-> r.raised,
                   ok |-> r.ret.ok, found |-> r.ret.found,
                   result |-> IF r.ret.found THEN r.ret.value ELSE <<>>]
    /\ fnUnchanged

\* ---- the age of an entry

\* The process starts with an empty cache shortly before the clock wraps.
StartTick == Sub32(Zero32, U32(DefaultTimeoutMs))

\* An entry loaded at the tick since, and a call made elapsed milliseconds
\* later: wraps * 2^32 + ms of them.
ElapsedArgs ==
    {[fn |-> "elapsed", since |-> s, wraps |-> w, ms |-> m] :
        s \in {StartTick, Zero32, U32(5)},
        w \in {0, 1},
        m \in {Zero32, U32(1), U32(DefaultTimeoutMs), U32(DefaultTimeoutMs + 1),
               <<Half \div 2, 0>>, <<Half - 1, Half - 1>>}}

\* msTick() has reached the tick of the call; needsRefresh(now) and
\* isStale() are asked of the entry.
needsRefresh_call ==
    /\ arg.fn = "elapsed"
    /\ UNCHANGED <<vaultVars, certVars, cs, udpVars, locks, arg, advances, secretTimeoutMs,
                   secrets, entries, views, th, nextObj, calls, overlapped>>
    /\ tick' = Add32(arg.since, arg.ms)
    /\ LET e == updateContents(SecretCacheEntry(arg.since),
                               [obj |-> nextObj, tree |-> {}], arg.since)
       IN  out' = [op |-> "needsRefresh",
                   now |-> tick',
                   needsRefresh |-> needsRefresh(e, tick'),
                   isStale |-> isStale(e)']

\* ------------------------------------------------------- specifications

Start(budget, v) ==
    /\ tick = StartTick
    /\ advances = 0
    /\ secretTimeoutMs = U32(DefaultTimeoutMs)
    /\ secrets = [k \in {} |-> 0]
    /\ entries = <<>>
    /\ views = <<>>
    /\ th = [t \in Threads |-> Idle]
    /\ nextObj = 1
    /\ calls = budget
    /\ overlapped = {}
    /\ vault = v
    /\ fetch = [t \in Threads |-> NoFetch]
    /\ wall = 1
    /\ mtlsInfoCacheCS = 0
    /\ mtlsInfoCache = <<>>
    /\ certs = <<>>
    /\ cth = [t \in Threads |-> CertIdle]
    /\ out = NoOut
    /\ cs = 0
    /\ udpKeyInitialized = FALSE
    /\ udpKey = <<>>
    /\ locks = [t \in Threads |-> NoPath]
    /\ useMtls = "UNINIT"

NoVault == CVault("unknown", "", 0, <<>>)

Init == Start(MaxCalls, NoVault) /\ arg = NoArg

InitCalls == Start(MaxArgCalls, NoVault) /\ arg = NoArg

InitVault == (\E v \in Vaults : Start(MaxFetches, v)) /\ arg = NoArg

\* One call of a function without state, for each of its arguments.
FnArgs ==
    NameArgs \cup DecodeArgs \cup SecretNameArgs \cup UrlArgs
        \cup UdpArgs \cup LocalArgs \cup ElapsedArgs \cup KeyPairArgs

InitFn == Start(0, NoVault) /\ arg \in FnArgs

InitCert == Start(MaxCertCalls, NoVault) /\ arg = NoArg

InitEntry == Start(MaxEntryCalls, NoVault) /\ arg = NoArg

\* Concurrent callers of one secret.
Next ==
    \/ \E t \in Threads : getSecret(t, SharedRequests)
    \/ \E t \in Threads : resolveSecret(t, SharedRequests)
    \/ \E t \in Threads : CSecret_access(t, {KeyName})
    \/ \E t \in Threads : resolveVaultSecret_byId(t)
    \/ \E t \in Threads : getSecretEntry_update(t)
    \/ \E t \in Threads : Return(t)
    \/ Tick

Spec == Init /\ [][Next]_vars

\* One caller, every kind of call and argument.
NextCalls ==
    \/ getSecret(1, CallRequests)
    \/ resolveSecret(1, CallRequests)
    \/ getSecretValue(1, ValueRequests, KeyArgs)
    \/ resolveLocalSecret(1)
    \/ resolveVaultSecret_byId(1)
    \/ resolveVaultSecret_byCategory(1)
    \/ getSecretEntry_update(1)
    \/ Return(1)

SpecCalls == InitCalls /\ [][NextCalls]_vars

\* One thread's fetches from one vault.
NextVault ==
    \/ CVault_requestSecret(1)
    \/ checkAuthentication(1)
    \/ Post(1)
    \/ Get(1)
    \/ WallTick

SpecVault == InitVault /\ [][NextVault]_vars

\* The functions without state, applied to their arguments.
NextFn ==
    \/ validateCategoryName_call
    \/ validateSecretName_call
    \/ validateKeyName_call
    \/ resolveVaultSecret_decode
    \/ getSecretEntry_decoded
    \/ generateDynamicUrlSecretName_call
    \/ generateDynamicUrlSecretName_url_call
    \/ initSecretUdpKey
    \/ getSecretUdpKey
    \/ getSecretValue_local
    \/ needsRefresh_call
    \/ getSecretEntry_key

SpecFn == InitFn /\ [][NextFn]_vars

\* One thread's calls of getIssuerTlsSyncedConfig for one issuer and accesses
\* to the views returned, while the secret changes at its source.
NextCert ==
    \/ getIssuerTlsSyncedConfig(1, {<<>>, <<"a">>}, TrustedPeers, {FALSE})
    \/ getIssuerTlsSyncedConfig_find(1)
    \/ CIssuerConfig_createConfig(1)
    \/ createConfig_getTree(1)
    \/ createConfig_return(1)
    \/ CSyncedCertificateBase_access(1)
    \/ checkUptoDate(1)
    \/ resolveLocalSecret(1)
    \/ resolveVaultSecret_byCategory(1)
    \/ getSecretEntry_update(1)
    \/ Return(1)
    \/ TickTo(MaxCertAdvance)

SpecCert == InitCert /\ [][NextCert]_vars

\* Two threads' calls of getIssuerTlsSyncedConfig for two issuers.
NextMtls ==
    \/ \E t \in Threads : getIssuerTlsSyncedConfig(t, Issuers, {Null}, BOOLEAN)
    \/ \E t \in Threads : getIssuerTlsSyncedConfig_find(t)
    \/ \E t \in Threads : CIssuerConfig_createConfig(t)
    \/ \E t \in Threads : createConfig_getTree(t)
    \/ \E t \in Threads : createConfig_return(t)
    \/ \E t \in Threads : resolveLocalSecret(t)
    \/ \E t \in Threads : resolveVaultSecret_byCategory(t)
    \/ \E t \in Threads : getSecretEntry_update(t)
    \/ \E t \in Threads : Return(t)

SpecMtls == InitCert /\ [][NextMtls]_vars

\* Three calls by two threads of queryMtls and of getIssuerTlsSyncedConfig
\* for the issuers "a" and "local", in any order.
NextQueryMtls ==
    \/ \E t \in Threads : queryMtls(t)
    \/ \E t \in Threads : getIssuerTlsSyncedConfig(t, {<<"a">>, Local}, {Null}, {FALSE})
    \/ \E t \in Threads : getIssuerTlsSyncedConfig_find(t)
    \/ \E t \in Threads : CIssuerConfig_createConfig(t)
    \/ \E t \in Threads : createConfig_getTree(t)
    \/ \E t \in Threads : createConfig_return(t)
    \/ \E t \in Threads : resolveLocalSecret(t)
    \/ \E t \in Threads : resolveVaultSecret_byCategory(t)
    \/ \E t \in Threads : getSecretEntry_update(t)
    \/ \E t \in Threads : Return(t)

InitQueryMtls == Start(MaxMtlsCalls, NoVault) /\ arg = NoArg

SpecQueryMtls == InitQueryMtls /\ [][NextQueryMtls]_vars

\* One caller of one secret without a vault id, while the clock moves and
\* the timeout is set.
NextEntry ==
    \/ getSecret(1, {Req(Cat, Sec, Null, Null)})
    \/ setSecretTimeout(1, Timeouts)
    \/ resolveLocalSecret(1)
    \/ resolveVaultSecret_byCategory(1)
    \/ getSecretEntry_update(1)
    \/ Return(1)
    \/ TickTo(MaxEntryAdvance)

SpecEntry == InitEntry /\ [][NextEntry]_vars

InitLock == Start(MaxLockCalls, NoVault) /\ arg = NoArg

\* Two threads' calls of getSecret for one secret without a vault id, block
\* by block.
NextLock ==
    \/ \E t \in Threads : getSecret_enter(t, {Req(Cat, Sec, Null, Null)})
    \/ \E t \in Threads : CriticalBlock(t)
    \/ \E t \in Threads : SecretCache_resolveSecret_block(t)
    \/ \E t \in Threads : getSecretEntry_needsRefresh(t)
    \/ \E t \in Threads : resolveLocalSecret(t)
    \/ \E t \in Threads : resolveVaultSecret_byCategory(t)
    \/ \E t \in Threads : getSecretEntry_resolved(t)
    \/ \E t \in Threads : SecretCache_updateSecret_block(t)
    \/ \E t \in Threads : SecretCache_getContents_block(t)
    \/ TickTo(MaxLockAdvance)

SpecLock == InitLock /\ [][NextLock]_vars

InitOrder == Start(MaxOrderCalls, NoVault) /\ arg = NoArg

\* Two threads' public operations, one critical section at a time.
NextOrder ==
    \/ \E t \in Threads : StartPath(t)
    \/ \E t \in Threads : CriticalSection_enter(t)
    \/ \E t \in Threads : CriticalSection_leave(t)

SpecOrder == InitOrder /\ [][NextOrder]_vars

InitLogin ==
    /\ \E v \in Vaults :
          LoginMode(v.authType) /\ v.retries = 0 /\ Start(MaxLoginFetches, v)
    /\ arg = NoArg

\* Two threads' fetches from one vault that is configured with a login.
NextLogin ==
    \/ \E t \in Threads : CVault_requestSecret(t)
    \/ \E t \in Threads : login_enter(t)
    \/ \E t \in Threads : login_test(t)
    \/ \E t \in Threads : login_post(t)
    \/ \E t \in Threads : checkAuthentication_token(t)
    \/ \E t \in Threads : Get(t)
    \/ WallTick

SpecLogin == InitLogin /\ [][NextLogin]_vars

\* ------------------------------------------------------------- properties

\* The calls that go through getSecret or resolveSecret.
EntryOps == {"getSecret", "resolveSecret"}

ValidNames(req) ==
    /\ isValidSecretOrKeyName(req.category, TRUE)
    /\ isValidSecretOrKeyName(req.name, FALSE)

\* The call of rec started within the timeout of the installation of the
\* contents the entry held when the call started.
WithinTimeout(rec) ==
    /\ rec.seen.contents.obj # 0
    /\ ~Gt32(Sub32(rec.now, rec.seen.contentTimestamp), secretTimeoutMs)

\* No two calls for the key of rec have been in progress at the same time.
Alone(rec) == KeyOfReq(rec.req) \notin overlapped

\* The call of rec has returned the snapshot it saw and asked no backend.
ServedFromCache(rec) ==
    /\ rec.consulted = <<>>
    /\ rec.raised = "none"
    /\ rec.op = "getSecret" => rec.ret.tree = rec.seen.contents

\* C1 as stated: a getSecret or resolveSecret call that starts within the
\* timeout of the installation of the contents returns that very snapshot and
\* asks no backend, whatever other threads do.
C1_AnyThreads ==
    \A t \in Threads :
        (th[t].pc = "done" /\ th[t].op \in EntryOps /\ WithinTimeout(th[t]))
            => ServedFromCache(th[t])

\* C1 amended: a getSecret or resolveSecret call that starts within the
\* timeout of the installation of the contents returns that very snapshot and
\* asks no backend, provided no two calls for the key have overlapped.
C1_CachedWithinTimeout ==
    \A t \in Threads :
        (th[t].pc = "done" /\ th[t].op \in EntryOps /\ WithinTimeout(th[t])
            /\ Alone(th[t]))
            => ServedFromCache(th[t])

\* A call that started exactly the timeout after the installation was served
\* from the cache.
C1_Witness ==
    \E t \in Threads :
        /\ th[t].pc = "done" /\ th[t].op = "getSecret" /\ Alone(th[t])
        /\ th[t].seen.contents.obj # 0
        /\ Sub32(th[t].now, th[t].seen.contentTimestamp) = secretTimeoutMs
        /\ th[t].ret.tree = th[t].seen.contents

\* The step in which thread t's refresh of an entry with contents fails:
\* getSecretEntry notes the failed update, or the vault's error leaves it.
FailedRefresh(t) ==
    /\ th[t].match # 0
    /\ hasContents(entries[th[t].match])
    /\ \/ th[t].pc = "update" /\ th[t].resolved.obj = 0 /\ th'[t].pc = "contents"
       \/ th[t].pc = "vault" /\ (th'[t].caught \/ th'[t].raised = "VaultAuthError")

\* C2 as stated: a failed refresh of an entry that has loaded contents leaves
\* those contents in place and the entry stale, whatever other threads do.
C2_AnyThreads ==
    [][\A t \in Threads :
          FailedRefresh(t) =>
             /\ entries'[th[t].match].contents = entries[th[t].match].contents
             /\ isStale(entries'[th[t].match])]_vars

\* C2 amended: a failed refresh of an entry that has loaded contents leaves
\* those contents in place; the entry is stale after it provided no two calls
\* for the key have overlapped.
C2_FailedRefreshKeepsContents ==
    [][\A t \in Threads :
          FailedRefresh(t) =>
             /\ entries'[th[t].match].contents = entries[th[t].match].contents
             /\ Alone(th[t]) => isStale(entries'[th[t].match])]_vars

\* A refresh of an entry with contents has failed with the calls one after
\* another, and the entry is stale.
C2_Witness ==
    \E t \in Threads :
        /\ th[t].pc = "contents" /\ th[t].refresh /\ ~th[t].caught
        /\ th[t].resolved.obj = 0 /\ Alone(th[t])
        /\ hasContents(entries[th[t].match])
        /\ isStale(entries[th[t].match])

\* C3: an entry that has contents has contents after every step.
C3_ContentsNeverReset ==
    [][\A e \in DOMAIN entries :
          hasContents(entries[e]) =>
             e \in DOMAIN entries' /\ hasContents(entries'[e])]_vars

\* A refresh has failed, by absence or by an error, on an entry that still
\* has the contents of an earlier load.
C3_Witness ==
    \E t \in Threads :
        /\ th[t].pc \in {"contents", "done"} /\ th[t].refresh
        /\ th[t].resolved.obj = 0
        /\ th[t].seen.contents.obj # 0
        /\ entries[th[t].match].contents = th[t].seen.contents

\* Every holder of an entry for a key holds the entry the map has for it.
OneEntryPerKey ==
    /\ Len(entries) = Cardinality(DOMAIN secrets)
    /\ \A j, k \in DOMAIN secrets : secrets[j] = secrets[k] => j = k
    /\ \A t \in Threads :
          /\ th[t].match # 0 => /\ KeyOfReq(th[t].req) \in DOMAIN secrets
                                /\ th[t].match = secrets[KeyOfReq(th[t].req)]
          /\ ~th[t].asserted
    /\ \A v \in DOMAIN views :
          /\ KeyOfReq(views[v].req) \in DOMAIN secrets
          /\ views[v].secret = secrets[KeyOfReq(views[v].req)]

\* C4: a key has one entry, which every resolution of the key returns; the
\* map keeps every key with the entry it has, and the assertion of
\* checkUptoDate never fails.
C4_OneEntryPerKey ==
    /\ []OneEntryPerKey
    /\ [][\A k \in DOMAIN secrets :
             k \in DOMAIN secrets' /\ secrets'[k] = secrets[k]]_vars

\* Two threads and a view hold the one entry of a key at the same time.
C4_Witness ==
    /\ \A t \in Threads : th[t].match # 0 /\ Busy(t)
    /\ th[1].match = th[2].match
    /\ \E v \in DOMAIN views : views[v].secret = th[1].match

\* The refresh of rec has asked every backend it asks.
RefreshDone(rec) == rec.refresh /\ rec.pc \in {"update", "contents", "done"}

LocalOnly(rec) ==
    rec.consulted = <<LocalSource>> /\ ~rec.fanout

\* Only the vault named by the vault id, if the category has it.
NamedVaultOnly(rec) ==
    /\ ~rec.fanout
    /\ rec.local = "none"
    /\ rec.consulted =
          IF rec.req.category \in categories
                /\ rec.req.vaultId \in vaults(rec.req.category)
          THEN <<rec.req.vaultId>> ELSE <<>>

\* The local source first, the fan-out exactly when it answered absent.
LocalThenFanout(rec) ==
    /\ Len(rec.consulted) >= 1
    /\ rec.consulted[1] = LocalSource
    /\ rec.fanout <=> rec.local = "absent"
    /\ rec.local = "found" => rec.consulted = <<LocalSource>>

\* C5 as stated: the vault id "k8s" means the local source only, any other
\* vault id the vault of that name only, no vault id the local source and
\* then the fan-out.
C5_LiteralK8s ==
    \A t \in Threads :
        RefreshDone(th[t]) =>
            IF isEmptyString(th[t].req.vaultId) THEN LocalThenFanout(th[t])
            ELSE IF streq(th[t].req.vaultId, K8s) THEN LocalOnly(th[t])
            ELSE NamedVaultOnly(th[t])

\* C5 amended: a vault id equal to "k8s" without regard to case means the
\* local source only, any other vault id the vault of that name only, no
\* vault id the local source and then the fan-out.
C5_BackendByVaultId ==
    \A t \in Threads :
        RefreshDone(th[t]) =>
            IF isEmptyString(th[t].req.vaultId) THEN LocalThenFanout(th[t])
            ELSE IF strieq(th[t].req.vaultId, K8s) THEN LocalOnly(th[t])
            ELSE NamedVaultOnly(th[t])

\* A refresh for the vault id "K8S" asked the local source.
C5_Witness ==
    \E t \in Threads :
        /\ RefreshDone(th[t])
        /\ th[t].req.vaultId = <<"K", "8", "S">>
        /\ th[t].consulted = <<LocalSource>>

\* C6 as stated: getSecretValue raises when required and the secret or the
\* key is absent; when not required it raises nothing for that, returns
\* false and leaves the result as it was.
C6_ReturnsFound ==
    \A t \in Threads :
        (/\ th[t].pc = "done" /\ th[t].op = "getSecretValue"
         /\ ValidNames(th[t].req) /\ validateKeyName(th[t].key)
         /\ th[t].raised \in {"none", "NotFound"}
         /\ ~th[t].ret.found)
            => IF th[t].required
               THEN th[t].raised = "NotFound"
               ELSE /\ th[t].raised = "none"
                    /\ th[t].ret.ok = FALSE
                    /\ th[t].ret.value = ""

First403(f) == Len(f.answers) >= 1 /\ f.answers[1] = 403

\* A fetch logs in by force at most once and has at most two GET rounds, the
\* second only after a 403 and a forced login; a second 403 ends it absent.
FetchBounded(f) ==
    /\ f.forced <= 1
    /\ f.rounds <= 2
    /\ Len(f.answers) <= 2
    /\ f.rounds = 2 => First403(f) /\ f.forced = 1
    /\ (f.pc = "done" /\ Len(f.answers) = 2 /\ f.answers[2] = 403)
          => f.result = "absent" /\ f.raised = "none"

\* C8 as stated: a 403 to the first GET round is followed by one forced
\* login and one more GET round, in every fetch.
C8_AlwaysSecondRound ==
    \A t \in Threads :
        /\ FetchBounded(fetch[t])
        /\ (fetch[t].pc = "done" /\ First403(fetch[t]))
              => fetch[t].forced = 1 /\ fetch[t].rounds = 2

\* C8 amended: after a 403 to the first GET round a vault that logs in is
\* logged in by force once, and one more GET round follows if that login
\* succeeds, while the fetch raises VaultAuthError without another GET if it
\* fails; a vault in token mode raises VaultAuthError without any login or
\* further GET.  A second 403 ends the fetch absent.  No fetch has more than
\* one forced login or more than two GET rounds.
C8_OneForcedLogin ==
    \A t \in Threads :
        /\ FetchBounded(fetch[t])
        /\ (fetch[t].pc = "done" /\ First403(fetch[t]))
              => IF vault.authType = "token"
                 THEN /\ fetch[t].raised = "VaultAuthError"
                      /\ fetch[t].forced = 0 /\ fetch[t].rounds = 1
                 ELSE /\ fetch[t].forced = 1
                      /\ fetch[t].logins # <<>>
                      /\ IF fetch[t].logins[Len(fetch[t].logins)] = "ok"
                         THEN fetch[t].rounds = 2
                         ELSE /\ fetch[t].raised = "VaultAuthError"
                              /\ fetch[t].rounds = 1

\* A fetch has ended absent after two GET rounds answered 403 and one forced
\* login.
C8_Witness ==
    \E t \in Threads :
        /\ fetch[t].pc = "done" /\ fetch[t].answers = <<403, 403>>
        /\ fetch[t].forced = 1 /\ fetch[t].result = "absent"

\* C9: a vault in token mode sends no login request and keeps the token it
\* was configured with; a fetch whose GET is answered 403 raises
\* VaultAuthError after that one GET round.
C9_TokenModeNoLogin ==
    vault.authType = "token" =>
        /\ vault.clientToken = vault.configured
        /\ \A t \in Threads :
              /\ fetch[t].posts = 0
              /\ fetch[t].logins = <<>>
              /\ fetch[t].forced = 0
              /\ (fetch[t].pc = "done" /\ 403 \in {fetch[t].answers[i] :
                                                    i \in DOMAIN fetch[t].answers})
                    => /\ fetch[t].raised = "VaultAuthError"
                       /\ fetch[t].answers = <<403>>

\* A fetch from a vault in token mode has raised VaultAuthError after a 403,
\* an earlier fetch having done so too, and the token is still the static one.
C9_Witness ==
    /\ vault.authType = "token"
    /\ vault.clientToken = "static"
    /\ calls = 0
    /\ \E t \in Threads :
          /\ fetch[t].pc = "done" /\ fetch[t].raised = "VaultAuthError"
          /\ fetch[t].answers = <<403>>

\* What a view's accessor returns when the entry holds contents.
ViewValue(op, contents, key) ==
    IF op = "getTree" THEN [NoRet EXCEPT !.tree = contents]
    ELSE IF op = "getVersion"
    THEN [NoRet EXCEPT !.version = IF contents.obj # 0
                                   THEN getPropertyTreeHash(contents.tree, HashSeed)
                                   ELSE Zero32]
    ELSE LET r == getSecretKeyValue(contents, key)
         IN  [NoRet EXCEPT !.ok = r.found, !.found = r.found, !.value = r.value]

\* The view access of rec has returned after its refresh failed.
FailedViewRefresh(rec) ==
    /\ rec.pc = "done" /\ rec.op \in ViewOps
    /\ rec.refresh
    /\ rec.caught \/ rec.resolved.obj = 0

\* C10 as stated: a view access raises nothing, and one whose refresh failed
\* returns the value of the contents held before the attempt, whatever other
\* threads do.
C10_AnyThreads ==
    \A t \in Threads :
        /\ (th[t].op \in ViewOps /\ validateKeyName(th[t].key))
              => th[t].raised = "none"
        /\ FailedViewRefresh(th[t])
              => th[t].ret = ViewValue(th[t].op, th[t].before, th[t].key)

\* C10 amended: a view access raises nothing, and one whose refresh failed
\* returns the value of the contents held before the attempt provided no
\* two calls for the key have overlapped.
C10_ViewKeepsOldValue ==
    \A t \in Threads :
        /\ (th[t].op \in ViewOps /\ validateKeyName(th[t].key))
              => th[t].raised = "none"
        /\ (FailedViewRefresh(th[t]) /\ Alone(th[t]))
              => th[t].ret = ViewValue(th[t].op, th[t].before, th[t].key)

\* A view access whose refresh ended in a vault error has returned the tree
\* held before.
C10_Witness ==
    \E t \in Threads :
        /\ FailedViewRefresh(th[t]) /\ th[t].caught /\ Alone(th[t])
        /\ th[t].op = "getTree"
        /\ th[t].before.obj # 0
        /\ th[t].ret.tree = th[t].before

\* ---- properties of the functions without state

\* The child of a tree by name, absent when the tree is absent or has none.
Child(ptr, name) ==
    IF ptr.obj # 0 /\ \E p \in ptr.node.kids : p[1] = name
    THEN NodePtr((CHOOSE p \in ptr.node.kids : p[1] = name)[2])
    ELSE NoNode

\* The entry of the last update was left with its contents and only noted
\* the failed attempt.
FailedUpdateNoted ==
    /\ out.entry.contents = out.before.contents
    /\ out.entry.contentTimestamp = out.before.contentTimestamp
    /\ out.entry.contentHash = out.before.contentHash
    /\ out.entry.checkedTimestamp = out.now

\* C15: a vault's body decodes to its subtree at data when the vault's kind
\* is kv_v1 and to its subtree at data/data for kv_v2 and for an unset or
\* unrecognised kind; an empty or unparseable body, or one without that path,
\* decodes to absent; an absent decode is noted as a failed update and is
\* never installed as contents.
C15_DecodeByKind ==
    /\ out.op = "resolveVaultSecret" =>
          out.resolved =
             IF ~arg.content.text THEN NoNode
             ELSE IF arg.kind = kv_v1 THEN Child(arg.content.json, Data)
             ELSE Child(Child(arg.content.json, Data), Data)
    /\ (out.op = "getSecretEntry" /\ out.decoded.obj = 0) => FailedUpdateNoted

\* A parseable body without the path of its vault's kind left a loaded entry
\* with its contents.
C15_Witness ==
    /\ out.op = "getSecretEntry"
    /\ arg.content.json.obj # 0
    /\ arg.kind = kv_v2
    /\ Child(arg.content.json, Data).obj # 0
    /\ out.decoded.obj = 0
    /\ out.before.contents.obj # 0
    /\ out.entry.contents = out.before.contents

\* The body {"data":{"data":{"k":"v"}}}.
ExampleBody == Branch({<<Data, Branch({<<Data, Branch({<<KeyName, Leaf("v1")>>})>>})>>})

\* C16 as stated: the body {"data":{"data":{"k":"v"}}} decoded with kind
\* kv_v2 yields {k: "v"}, and decoded with kind kv_v1 yields absent.
C16_V1Absent ==
    (out.op = "resolveVaultSecret" /\ arg.content = Json(ExampleBody)) =>
        /\ arg.kind = kv_v2 => out.resolved = NodePtr(Branch({<<KeyName, Leaf("v1")>>}))
        /\ arg.kind = kv_v1 => out.resolved.obj = 0

\* C16 amended: the body {"data":{"data":{"k":"v"}}} decoded with kind kv_v2
\* yields {k: "v"}, and decoded with kind kv_v1 yields its subtree at data,
\* {data: {k: "v"}}.
C16_V1YieldsData ==
    (out.op = "resolveVaultSecret" /\ arg.content = Json(ExampleBody)) =>
        /\ arg.kind = kv_v2 => out.resolved = NodePtr(Branch({<<KeyName, Leaf("v1")>>}))
        /\ arg.kind = kv_v1 =>
              out.resolved = NodePtr(Branch({<<Data, Branch({<<KeyName, Leaf("v1")>>})>>}))

\* The example body has been decoded with kind kv_v1.
C16_Witness ==
    /\ out.op = "resolveVaultSecret"
    /\ arg.content = Json(ExampleBody)
    /\ arg.kind = kv_v1
    /\ out.resolved.obj # 0

\* The rule of names: not empty, every character alphanumeric or one of
\* extra, the first and the last character among edge.
NameRule(name, extra, edge) ==
    /\ name # <<>>
    /\ \A i \in 1..Len(name) : isalnum(name[i]) \/ name[i] \in extra
    /\ isalnum(name[1]) \/ name[1] \in edge
    /\ isalnum(name[Len(name)]) \/ name[Len(name)] \in edge

\* C17: a category or secret name is accepted exactly when it is not empty,
\* each of its characters is alphanumeric, '.' or '-', and its first and last
\* characters are alphanumeric.
C17_NameAccepted ==
    out.op \in {"validateCategoryName", "validateSecretName"} =>
        out.ok = NameRule(arg.name, {".", "-"}, {})

\* C18 as stated: a key name is accepted exactly when it follows the rule of
\* names with '_' allowed in addition at any position, the first and the last
\* included.
C18_UnderscoreAnywhere ==
    out.op = "validateKeyName" =>
        out.ok = NameRule(arg.name, {".", "-", "_"}, {"_"})

\* C18 amended: a key name is accepted exactly when it follows the rule of
\* names with '_' allowed in addition at any position but the first and the
\* last, which are alphanumeric.
C18_UnderscoreInside ==
    out.op = "validateKeyName" =>
        out.ok = NameRule(arg.name, {".", "-", "_"}, {})

\* A key name with '_' inside was accepted.
C18_Witness ==
    /\ out.op = "validateKeyName"
    /\ arg.name = <<"a", "_", "b">>
    /\ out.ok

\* The name the six-argument form gives the arguments of arg with another port.
NameWithPort(port) ==
    generateDynamicUrlSecretName(arg.scheme, arg.userPasswordPair, arg.host,
                                 port, arg.path)

\* The name the URL form gives another URL and the user name of arg.
NameOfUrl(url) == generateDynamicUrlSecretName_url(url, arg.inputUsername).name

\* C19: for every host, user and path, scheme http with port 80 yields the
\* name of http with port 0, and scheme https with port 443 the name of
\* https with port 0; so http://h/ and http://h:80/, and https://h/ and
\* https://h:443/, yield identical names.
C19_DefaultPortSuppressed ==
    /\ (out.op = "generateDynamicUrlSecretName"
            /\ arg.scheme \in {<<"h", "t", "t", "p">>, <<"h", "t", "t", "p", ":", "/", "/">>} /\ arg.port = 80)
          => out.name = NameWithPort(0)
    /\ (out.op = "generateDynamicUrlSecretName"
            /\ arg.scheme \in {<<"h", "t", "t", "p", "s">>, <<"h", "t", "t", "p", "s", ":", "/", "/">>} /\ arg.port = 443)
          => out.name = NameWithPort(0)
    /\ (out.op = "generateDynamicUrlSecretName_url" /\ arg.url = <<"h", "t", "t", "p", ":", "/", "/", "h", ":", "8", "0", "/">>)
          => (~out.raised /\ out.name = NameOfUrl(<<"h", "t", "t", "p", ":", "/", "/", "h", "/">>))
    /\ (out.op = "generateDynamicUrlSecretName_url" /\ arg.url = <<"h", "t", "t", "p", "s", ":", "/", "/", "h", ":", "4", "4", "3", "/">>)
          => (~out.raised /\ out.name = NameOfUrl(<<"h", "t", "t", "p", "s", ":", "/", "/", "h", "/">>))

\* The user name of a user[:password] pair.
Username(pair) ==
    IF isEmptyString(pair) THEN <<>>
    ELSE IF IndexOf(pair, ":") # 0 THEN Take(pair, IndexOf(pair, ":") - 1)
    ELSE pair

\* C20: for fixed scheme, host, port and path, two user[:password] pairs
\* yield the same name when their user names are equal, whatever the
\* password and whether or not one is given, and different names when their
\* user names differ.
C20_NameByUsername ==
    out.op = "generateDynamicUrlSecretName" =>
        \A u \in UserPasswordPairs :
            (Username(u) = Username(arg.userPasswordPair))
                <=> (generateDynamicUrlSecretName(arg.scheme, u, arg.host,
                                                  arg.port, arg.path) = out.name)

\* The name of a pair with a password is that of its user name alone and of
\* the same user with another password.
C20_Witness ==
    /\ out.op = "generateDynamicUrlSecretName"
    /\ arg.userPasswordPair = <<"u", ":", "p">>
    /\ arg.path = <<"/", "p">>
    /\ out.name = generateDynamicUrlSecretName(arg.scheme, <<"u">>, arg.host,
                                               arg.port, arg.path)
    /\ out.name = generateDynamicUrlSecretName(arg.scheme, <<"u", ":", "q">>,
                                               arg.host, arg.port, arg.path)
    /\ out.name # generateDynamicUrlSecretName(arg.scheme, <<"w", ":", "p">>,
                                               arg.host, arg.port, arg.path)

\* ---- properties of the fan-out over a category's vaults

\* The vaults of a category in the order in which the configuration adds them.
RECURSIVE InsertionOrder(_, _)
InsertionOrder(category, i) ==
    IF i > Len(VaultConfig) THEN <<>>
    ELSE IF VaultConfig[i].category = category
            /\ ~isEmptyString(VaultConfig[i].name)
            /\ \A j \in 1..(i - 1) : VaultConfig[j] # VaultConfig[i]
    THEN <<VaultConfig[i].name>> \o InsertionOrder(category, i + 1)
    ELSE InsertionOrder(category, i + 1)

IsVault(source) == source # LocalSource

IsPrefix(s, r) == Len(s) <= Len(r) /\ s = SubSeq(r, 1, Len(s))

\* C14: resolution by category asks the vaults of the category in the order
\* in which the configuration added them, and stops at the first vault that
\* yields the secret: the vaults asked, in the order asked, are a prefix of
\* the insertion order.
C14_InsertionOrder ==
    \A t \in Threads :
        th[t].fanout =>
            IsPrefix(SelectSeq(th[t].consulted, IsVault),
                     InsertionOrder(th[t].req.category, 1))

\* ---- properties of the certificate views

\* No call is in progress on any thread.
AtRest == \A t \in Threads : ~CertBusy(t) /\ ~Busy(t)

\* The view c is in mtlsInfoCache.
Published(c) == \E k \in DOMAIN mtlsInfoCache : mtlsInfoCache[k] = c

\* The cache entry behind the view c.
EntryOf(c) == entries[views[certs[c].secret].secret]

\* config was derived from these contents.
BuiltFrom(config, contents) ==
    IF contents.obj = 0 THEN config.obj = 0
    ELSE config.obj # 0 /\ config.from = contents.tree

\* C11: whenever no access is in progress and the version a certificate view
\* remembers equals the current content hash of its entry, the view's derived
\* tree was built from the entry's current contents.
C11_DerivedFromCurrent ==
    \A c \in 1..Len(certs) :
        (Published(c) /\ AtRest /\ certs[c].secretHash = getHash(EntryOf(c)))
            => BuiltFrom(certs[c].config, EntryOf(c).contents)

\* C12: the view getIssuerTlsSyncedConfig returns was made for the caller's
\* own issuer, trustedPeers (null or the very string given) and disableMTLS.
C12_ViewOfTriple ==
    \A t \in Threads :
        (cth[t].pc = "done" /\ cth[t].op = "getIssuerTlsSyncedConfig"
            /\ cth[t].ret # 0)
            => /\ certs[cth[t].ret].issuer = cth[t].issuer
               /\ certs[cth[t].ret].trustedPeers = cth[t].trustedPeers
               /\ certs[cth[t].ret].disableMTLS = cth[t].disableMTLS

\* The thread is in a backend operation of a refresh: reading the local
\* directory or asking a vault.
InBackend(u) == th[u].pc \in {"local", "vault", "fanout"}

\* Thread t waits for mtlsInfoCacheCS, which thread u holds.
WaitsFor(t, u) == t # u /\ cth[t].pc = "lock" /\ mtlsInfoCacheCS = u

\* C13: a refresh that is in a backend operation blocks only its own thread:
\* no thread asking getIssuerTlsSyncedConfig for another issuer's secret
\* waits for a lock held by a thread that is in a backend operation.
C13_OnlyCallerBlocked ==
    \A t, u \in Threads :
        ~(WaitsFor(t, u) /\ InBackend(u) /\ cth[t].issuer # cth[u].issuer)

\* The refresh attempt of a call is over: the call has returned or raised.
AttemptOver(rec) == rec.refresh /\ rec.pc = "done"

\* C23 as stated: after every refresh attempt of getSecretEntry, whether it
\* installed contents, found nothing or ended with a vault's error, the
\* entry's checkedTimestamp is the tick of that attempt.
C23_CheckedAfterAttempt ==
    \A t \in Threads :
        AttemptOver(th[t]) =>
            entries[th[t].match].checkedTimestamp = th[t].now

\* The step in which getSecretEntry, on thread t, ends a refresh by
\* updateSecret or by noteFailedUpdate.
UpdateStep(t) == th[t].pc = "update" /\ th'[t].pc = "contents"

\* C24: a failed update sets checkedTimestamp to the attempt's tick and
\* changes nothing else of the entry; a successful update installs the
\* contents, recomputes contentHash and sets the three timestamps to the
\* attempt's tick; neither changes any other entry.
C24_UpdateFrame ==
    [][\A t \in Threads :
          UpdateStep(t) =>
             LET m   == th[t].match
                 now == th[t].now
                 new == th[t].resolved
             IN  /\ DOMAIN entries' = DOMAIN entries
                 /\ \A e \in DOMAIN entries \ {m} : entries'[e] = entries[e]
                 /\ IF new.obj = 0
                    THEN /\ entries'[m].checkedTimestamp = now
                         /\ entries'[m].contents = entries[m].contents
                         /\ entries'[m].contentHash = entries[m].contentHash
                         /\ entries'[m].contentTimestamp = entries[m].contentTimestamp
                         /\ entries'[m].accessedTimestamp = entries[m].accessedTimestamp
                    ELSE /\ entries'[m].contents = new
                         /\ entries'[m].contentHash = getPropertyTreeHash(new.tree, HashSeed)
                         /\ entries'[m].contentTimestamp = now
                         /\ entries'[m].accessedTimestamp = now
                         /\ entries'[m].checkedTimestamp = now]_vars

\* An update has failed, later than the load of the contents the entry
\* holds: the entry is checked at the attempt's tick and loaded before it.
C24_Witness ==
    \E t \in Threads :
        /\ th[t].pc = "contents" /\ th[t].refresh /\ ~th[t].caught
        /\ th[t].resolved.obj = 0
        /\ hasContents(entries[th[t].match])
        /\ entries[th[t].match].checkedTimestamp = th[t].now
        /\ entries[th[t].match].contentTimestamp # th[t].now

\* The hash function applied to the contents of an entry.
HashOf(contents) ==
    IF contents.obj # 0 THEN getPropertyTreeHash(contents.tree, HashSeed)
    ELSE Zero32

\* Two contents differ: one is absent and the other not, or their trees differ.
Differ(a, b) == (a.obj = 0) # (b.obj = 0) \/ a.tree # b.tree

HashIsOfContents ==
    cs = 0 => \A e \in DOMAIN entries :
                 entries[e].contentHash = HashOf(entries[e].contents)

C28_NewEntryNeedsRefresh ==
    [][\A t \in Threads :
          (Len(entries') > Len(entries) /\ th'[t].match = Len(entries'))
             => th'[t].refresh]_vars

\* The rounds of requests of a fetch: the GET rounds begun, and the logins
\* that have ended or are posting.
LoginRounds(f) == Len(f.logins) + (IF f.pc = "post" THEN 1 ELSE 0)

\* The requests a round may issue: the first and one per retry.
PerRound == vault.retries + 1

\* C30: a round of login POSTs or of secret GETs issues at most retries + 1
\* requests, at least one, repeats a request only after one that got no
\* response, each repeat using up one of the retries, and ends with the
\* first response.
C30_BoundedRetries ==
    /\ [](\A t \in Threads :
            LET f == fetch[t]
            IN  /\ f.gets <= f.rounds * PerRound
                /\ f.posts <= LoginRounds(f) * PerRound
                /\ f.pc # "get" => f.gets >= f.rounds
                /\ Len(f.answers) <= f.rounds
                /\ f.pc \in {"get", "post"} => f.numRetries \in 0..vault.retries)
    /\ [][\A t \in Threads :
             (/\ fetch[t].pc \in {"get", "post"}
              /\ fetch'[t] # fetch[t]
              /\ fetch'[t].pc = fetch[t].pc)
                => /\ fetch[t].numRetries > 0
                   /\ fetch'[t].numRetries = fetch[t].numRetries - 1
                   /\ fetch'[t].answers = fetch[t].answers
                   /\ fetch'[t].logins = fetch[t].logins]_vars

\* A round of GETs of a vault with retries has used every retry without a
\* response and has ended.
C30_Witness ==
    \E t \in Threads :
        /\ fetch[t].pc = "done" /\ vault.retries > 0
        /\ fetch[t].rounds = 1 /\ fetch[t].answers = <<0>>
        /\ fetch[t].gets = PerRound

\* C22 as stated: once initSecretUdpKey has been called, getSecretUdpKey
\* raises exactly when the key is required and no key bytes are stored, and
\* otherwise returns the stored bytes, whether or not the key file exists.
C22_UdpKeyAfterInit ==
    [][(out.op = "initSecretUdpKey" /\ out'.op = "getSecretUdpKey")
          => IF out'.required /\ Len(udpKey) = 0
             THEN out'.raised = "NotFound"
             ELSE out'.raised = "none" /\ out'.key = udpKey]_vars

\* getSecretValue has returned, without raising, the bytes written.
ReturnsBytes == out.raised = "none" /\ out.result = arg.bytes

\* C21 as stated: whatever bytes are stored in the file <mount>/c/s/k, with
\* valid names, a fresh getSecretValue returns exactly those bytes.
C21_AnyBytes ==
    (out.op = "getSecretValue" /\ validateKeyName(arg.key)) => ReturnsBytes

\* C21 amended: whatever bytes, at least one, are stored in the file
\* <mount>/c/s/k, with valid names and k a name the local source loads, a
\* fresh getSecretValue returns exactly those bytes.
C21_LocalRoundTrip ==
    (/\ out.op = "getSecretValue"
     /\ validateKeyName(arg.key) /\ validateXMLTag(arg.key)
     /\ Len(arg.bytes) > 0)
        => ReturnsBytes

\* Bytes that are not text, in a directory with other entries, have been
\* read back as written by a call that required them.
C21_Witness ==
    /\ out.op = "getSecretValue" /\ arg.required
    /\ arg.bytes = <<0, 255>> /\ Len(arg.others) > 0
    /\ arg.key = <<"a", ".", "b">>
    /\ ReturnsBytes

\* More than the timeout has passed between the two instants of arg.
Exceeds == arg.wraps > 0 \/ Gt32(arg.ms, secretTimeoutMs)

\* C29 as stated: needsRefresh(now) and isStale() are true exactly when the
\* time elapsed since the entry was last checked, and was last loaded,
\* exceeds the timeout.
C29_AnyElapsed ==
    out.op = "needsRefresh" =>
        /\ out.needsRefresh <=> Exceeds
        /\ out.isStale <=> Exceeds

\* C29 amended: the same, provided fewer than 2^32 milliseconds have elapsed.
C29_ElapsedBelowRange ==
    (out.op = "needsRefresh" /\ arg.wraps = 0) =>
        /\ out.needsRefresh <=> Exceeds
        /\ out.isStale <=> Exceeds

\* The tick counter has wrapped around between the load and the call, more
\* than the timeout apart, and both answers are true.
C29_Witness ==
    /\ out.op = "needsRefresh" /\ arg.wraps = 0
    /\ Gt32(arg.since, out.now)
    /\ Exceeds /\ out.needsRefresh /\ out.isStale

\* Thread t is about to write checkedTimestamp of its entry outside any block.
WritesUnlocked(t) == th[t].pc = "update" /\ th[t].resolved.obj = 0

\* Thread u is about to read or write checkedTimestamp of its entry: by
\* needsRefresh(now) or noteFailedUpdate outside the blocks, by
\* updateContents inside one.
AccessesChecked(u) ==
    th[u].pc \in {"needsRefresh", "in_updateSecret"} \/ WritesUnlocked(u)

\* C25 as stated: an entry's fields and the entry map change only in steps of
\* the thread that holds the cache lock, and no thread writes a field of an
\* entry while another thread reads or writes it.
C25_WritesUnderLock ==
    /\ [][(entries' # entries \/ secrets' # secrets)
             => \E t \in Threads : cs = t /\ th'[t] # th[t]]_vars
    /\ [](\A t, u \in Threads :
            (t # u /\ th[t].match # 0 /\ th[t].match = th[u].match)
               => ~(WritesUnlocked(t) /\ AccessesChecked(u)))

\* The positions of a thread inside a backend operation: reading the local
\* directory, and a vault's request with its logins, GETs and sleeps.
InBackend_io(t) == th[t].pc \in {"local", "vault", "fanout"}

\* C26: a thread that is in a backend operation does not hold the cache lock.
C26_NoLockAcrossIO ==
    \A t \in Threads : InBackend_io(t) => cs # t

\* One thread is asking the vaults of the category, the local directory read,
\* while the other is inside a block of the cache.
C26_Witness ==
    \E t, u \in Threads :
        /\ th[t].pc = "fanout"
        /\ cs = u /\ u # t
        /\ th[u].pc = "in_resolveSecret"

\* Thread t sends a login request in this step.
SendsLogin(t) == fetch'[t].posts > fetch[t].posts

\* The preceding GET of t's fetch was answered 403.
Answered403(f) == Len(f.answers) > 0 /\ f.answers[Len(f.answers)] = 403

\* The vault's token has an absolute expiration and time() has reached it.
ExpirationPassed == vault.clientTokenExpiration # 0 /\ vault.clientTokenExpiration <= wall

\* C31: in appRole, k8s and clientcert mode a fetch sends a login request only
\* when the vault holds no token, or the token's expiration exists and has
\* passed, or the preceding GET of the fetch was answered 403; a token whose
\* expiration is 0 (lease_duration 0) is never a reason for a login.
C31_LoginOnlyWhenNeeded ==
    [][\A t \in Threads :
          SendsLogin(t) =>
             /\ LoginMode(vault.authType)
             /\ \/ vault.clientToken = ""
                \/ ExpirationPassed
                \/ Answered403(fetch[t])]_vars

\* A fetch has returned content without any login, with the token of an
\* earlier login of lease_duration 0, after time() has moved.
C31_Witness ==
    /\ LoginMode(vault.authType)
    /\ vault.clientToken = "login" /\ vault.clientTokenExpiration = 0
    /\ wall > 1
    /\ fetch[1].pc = "done" /\ fetch[1].result = "content"
    /\ fetch[1].posts = 0 /\ fetch[1].gets > 0

\* Threads inside a login's POST.
InFlight == { t \in Threads : fetch[t].pc = "post" }

\* C32 as stated: one login at most is in flight, and a thread that waited
\* for another thread's successful login sends no login of its own.
C32_WaiterNeverLogsIn ==
    /\ Cardinality(InFlight) <= 1
    /\ \A t \in Threads : fetch[t].waited => fetch[t].posts = 0

\* C32 amended: one login at most is in flight, and a thread that waited for
\* another thread's successful login sends a login of its own only when the
\* token's expiration has passed or its own GET was answered 403.
C32_WaiterReusesToken ==
    /\ [](Cardinality(InFlight) <= 1)
    /\ [][\A t \in Threads :
             (fetch[t].waited /\ SendsLogin(t))
                => (ExpirationPassed \/ Answered403(fetch[t]))]_vars

\* A thread that waited for the other thread's login has got its content
\* without a login of its own.
C32_Witness ==
    \E t \in Threads :
        /\ fetch[t].waited
        /\ fetch[t].pc = "done" /\ fetch[t].result = "content"
        /\ fetch[t].posts = 0

\* Thread t reads clientToken in this step: the test for an empty token and
\* the header of the GET.
ReadsToken(t) == fetch[t].pc = "token" /\ fetch'[t] # fetch[t]

\* C33 as stated: a thread reads or writes the vault's token, expiration and
\* renewable flag only while it holds vaultCS, and no thread is about to read
\* the token while another thread's login is about to replace it.
C33_TokenUnderLock ==
    /\ [][\A t \in Threads :
             (ReadsToken(t) \/ vault'.clientToken # vault.clientToken
                            \/ vault'.clientTokenExpiration # vault.clientTokenExpiration)
                => \E u \in Threads : vault.vaultCS = u /\ fetch'[u] # fetch[u]]_vars
    /\ [](\A t, u \in Threads :
             ~(t # u /\ fetch[t].pc = "token" /\ fetch[u].pc = "post"))

\* A login of thread t fails in this step.
LoginFails(t) == fetch'[t].logins = Append(fetch[t].logins, "failed")

\* The vault's token, its expiration and its renewable flag.
TokenState(v) == <<v.clientToken, v.clientTokenExpiration, v.clientTokenRenewable>>

\* C34: a login that fails raises VaultAuthError to the caller of the fetch
\* and leaves the vault's token, expiration and renewable flag as they were.
C34_FailedLoginKeepsToken ==
    [][\A t \in Threads :
          LoginFails(t) =>
             /\ fetch'[t].pc = "done"
             /\ fetch'[t].raised = "VaultAuthError"
             /\ fetch'[t].result = "none"
             /\ TokenState(vault') = TokenState(vault)]_vars

\* A forced login has failed after its POST and the vault still holds the
\* token and the expiration of the login before it.
C34_Witness ==
    /\ fetch[1].pc = "done" /\ fetch[1].raised = "VaultAuthError"
    /\ fetch[1].posts > 0
    /\ Len(fetch[1].logins) > 0 /\ fetch[1].logins[Len(fetch[1].logins)] = "failed"
    /\ vault.clientToken = "login" /\ vault.clientTokenExpiration # 0
    /\ vault.vaultCS = 0

\* Tick a is earlier than tick b on the 32-bit millisecond clock.
Earlier(a, b) ==
    LET d == Sub32(b, a) IN d # Zero32 /\ d[1] < Half \div 2

\* C35 as stated: no step moves an entry's contentTimestamp or
\* checkedTimestamp to an earlier tick, whichever of several concurrent
\* refreshes of the entry finishes last.
C35_TimestampsForward ==
    [][\A e \in DOMAIN entries :
          /\ ~Earlier(entries'[e].contentTimestamp, entries[e].contentTimestamp)
          /\ ~Earlier(entries'[e].checkedTimestamp, entries[e].checkedTimestamp)]_vars

\* The one order of the locks: a thread that holds a lock enters only locks
\* of a higher rank, or the lock itself again.
Rank(lock) ==
    CASE lock = "queryMtlsCS"     -> 1
      [] lock = "mtlsInfoCacheCS" -> 2
      [] lock = "cert.secretCs"   -> 3
      [] lock = "secret.secretCs" -> 4
      [] lock = "vaultCS"         -> 5
      [] lock = "secretCS"        -> 6
      [] lock = "cs"              -> 7

\* Thread t waits to enter a lock that thread u holds.
WaitsForLock(t, u) ==
    /\ t # u
    /\ locks[t].todo # <<>>
    /\ Head(locks[t].todo)[1] = "enter"
    /\ Holds(u, Head(locks[t].todo)[2])

\* C36: the locks a thread holds were entered in the order of their ranks, a
\* lock being entered again only by its holder, and no set of threads waits
\* in a circle: a thread that has something left to do can go on, or waits
\* for a thread that can.
C36_NoDeadlock ==
    /\ \A t \in Threads : \A i, j \in DOMAIN locks[t].held :
          i < j => Rank(locks[t].held[i]) <= Rank(locks[t].held[j])
    /\ \A t, u \in Threads : ~(WaitsForLock(t, u) /\ WaitsForLock(u, t))

\* One thread is building a certificate view and holds the mTLS cache's lock,
\* the view's lock, the vault's lock and the cache's lock, and the other
\* thread waits for the cache's lock.
C36_Witness ==
    \E t, u \in Threads :
        /\ locks[t].held = <<"mtlsInfoCacheCS", "secret.secretCs", "vaultCS", "cs">>
        /\ WaitsForLock(u, t)
        /\ locks[u].held # <<>>

\* The vaults of the request's category, in the order of the fan-out.
FanoutOrder(rec) ==
    IF rec.req.category \in categories THEN MapOrder(vaults(rec.req.category)) ELSE <<>>

\* The by-category fan-out of the call is over and has given no tree.
FanoutGaveNothing(rec) ==
    rec.fanout /\ rec.pc # "fanout" /\ rec.resolved.obj = 0

\* The vaults the call has asked, in the order asked.
VaultsTried(rec) == SelectSeq(rec.consulted, IsVault)

C38_KeyInjective ==
    out.op = "getSecretEntry_key" =>
        (out.keys[1] = out.keys[2] => arg.a = arg.b)

\* The directory that getSecretValue_local hands to the local source.
LocalDirectory == Directory(arg.others \o <<File(arg.key, arg.bytes)>>)

\* C39 as stated: the local source returns either absent or a mapping with
\* at least one key, so a directory that yields no key gives absent and
\* leaves the secret to the vault fan-out.
C39_AbsentOrKeyed ==
    out.op = "getSecretValue" =>
        LET resolved == resolveLocalSecret_read(LocalDirectory)
        IN  resolved.obj = 0 \/ resolved.tree # {}

\* A call of queryMtls by thread t has failed its assertion.
AssertionFailed(t) == cth[t].op = "queryMtls" /\ cth[t].raised = "assertex"

\* C40 as stated: the assertion in queryMtls that mtlsInfoCache has no entry
\* with the key "local" holds whenever it is evaluated, in whatever order the
\* threads call queryMtls and getIssuerTlsSyncedConfig.
C40_AssertionValid == \A t \in Threads : ~AssertionFailed(t)

====
